---------------------------- MODULE Spec2Model ----------------------------
(***************************************************************************)
(* A model of the SOA rule engine (src/src/soa_rules/soa_dsl_implementation *)
(* .py) and of the transient time-fraction validators                       *)
(* (src/src/soa_rules/corrected_tmaxfrac_analysis.py).                       *)
(*                                                                         *)
(* Representation.  Python floats (voltages, tmaxfrac fractions) are fixed  *)
(* point integers: the float x is the integer x * Scale.  Times are         *)
(* integers in units of 0.1 us.  Python str objects are sequences of        *)
(* one-character strings, so that lower(), substring tests, str(float) and  *)
(* float(str) are computed and not assumed.  A Python dict is a sequence of *)
(* <<key, value>> pairs with distinct keys, in insertion order.  A JSON     *)
(* object whose fields may be absent is a function from the field names it  *)
(* has.                                                                     *)
(***************************************************************************)
EXTENDS Integers, Sequences, FiniteSets, TLC

VARIABLES devices, global_config, result

vars == <<devices, global_config, result>>

\* The fixed-point scale of floats: 1.65 is 1650, tmaxfrac 0.01 is 10.
Scale == 1000

--------------------------------------------------------------------------
(* Python str, as sequences of characters *)

S_no_limit == <<"n", "o", "-", "l", "i", "m", "i", "t">>
S_No_Limit == <<"N", "o", "-", "L", "i", "m", "i", "t">>
S_abc == <<"a", "b", "c">>
S_1_71 == <<"1", ".", "7", "1">>

UpperChars == <<"A", "B", "C", "D", "E", "F", "G", "H", "I", "J", "K", "L", "M",
                "N", "O", "P", "Q", "R", "S", "T", "U", "V", "W", "X", "Y", "Z">>
LowerChars == <<"a", "b", "c", "d", "e", "f", "g", "h", "i", "j", "k", "l", "m",
                "n", "o", "p", "q", "r", "s", "t", "u", "v", "w", "x", "y", "z">>
DigitChars == <<"0", "1", "2", "3", "4", "5", "6", "7", "8", "9">>

LowerChar(c) ==
    IF \E i \in 1..Len(UpperChars) : UpperChars[i] = c
    THEN LowerChars[CHOOSE i \in 1..Len(UpperChars) : UpperChars[i] = c]
    ELSE c

\* str.lower()
Lower(s) == [i \in 1..Len(s) |-> LowerChar(s[i])]

\* sub in s
Contains(sub, s) ==
    \E i \in 0..(Len(s) - Len(sub)) :
        \A j \in 1..Len(sub) : s[i + j] = sub[j]

IsDigit(c) == \E i \in 1..Len(DigitChars) : DigitChars[i] = c
DigitVal(c) == (CHOOSE i \in 1..Len(DigitChars) : DigitChars[i] = c) - 1

RECURSIVE DigitsVal(_)
DigitsVal(s) ==
    IF Len(s) = 0 THEN 0
    ELSE 10 * DigitsVal(SubSeq(s, 1, Len(s) - 1)) + DigitVal(s[Len(s)])

Pow10(k) == IF k = 0 THEN 1 ELSE IF k = 1 THEN 10 ELSE IF k = 2 THEN 100 ELSE 1000

\* The number of decimal digits the fixed point keeps.
ScaleDigits == CHOOSE k \in 0..3 : Pow10(k) = Scale

\* float(s) for a str s: [ok |-> TRUE, n |-> the float] or [ok |-> FALSE] for
\* ValueError.  The decimal literals of Python's float(): an optional sign,
\* digits with at most one point and at least one digit.  Digits beyond the
\* fixed point's precision are dropped (the inputs used stay on the grid).
ParseUnsigned(s) ==
    LET dots == {i \in 1..Len(s) : s[i] = "."}
        p == IF dots = {} THEN Len(s) + 1 ELSE CHOOSE i \in dots : TRUE
        ip == SubSeq(s, 1, p - 1)
        fp == SubSeq(s, p + 1, Len(s))
        fpk == SubSeq(fp, 1, IF Len(fp) < ScaleDigits THEN Len(fp) ELSE ScaleDigits)
    IN  IF /\ Cardinality(dots) <= 1
           /\ Len(ip) + Len(fp) >= 1
           /\ \A i \in 1..Len(s) : i \in dots \/ IsDigit(s[i])
        THEN [ok |-> TRUE,
              n |-> DigitsVal(ip) * Scale + DigitsVal(fpk) * Pow10(ScaleDigits - Len(fpk))]
        ELSE [ok |-> FALSE]

ParseFloat(s) ==
    IF Len(s) >= 1 /\ s[1] = "-"
    THEN LET r == ParseUnsigned(Tail(s))
         IN  IF r.ok THEN [ok |-> TRUE, n |-> 0 - r.n] ELSE r
    ELSE ParseUnsigned(s)

RECURSIVE NatStr(_)
NatStr(n) ==
    IF n < 10 THEN <<DigitChars[n + 1]>>
    ELSE NatStr(n \div 10) \o <<DigitChars[(n % 10) + 1]>>

RECURSIVE FixedStr(_, _)
\* the number f < 10^k in exactly k digits
FixedStr(f, k) ==
    IF k = 0 THEN <<>>
    ELSE FixedStr(f \div 10, k - 1) \o <<DigitChars[(f % 10) + 1]>>

RECURSIVE FracStr(_, _)
\* the k-digit fraction f without its trailing zeros, one digit at least
FracStr(f, k) ==
    IF k = 1 THEN <<DigitChars[f + 1]>>
    ELSE IF f % 10 = 0 THEN FracStr(f \div 10, k - 1)
    ELSE FixedStr(f, k)

\* A seeded fault: the float is written with two decimals, as by '%.2f'
\* with the third decimal cut off.
FloatStr_2f(n) ==
    LET a == IF n < 0 THEN 0 - n ELSE n
    IN  (IF n < 0 THEN <<"-">> ELSE <<>>)
            \o NatStr(a \div Scale) \o <<".">>
            \o <<DigitChars[((a % Scale) \div 100) + 1],
                 DigitChars[(((a % Scale) \div 10) % 10) + 1]>>

\* str(x) for a float x: the shortest repr, "0.1", "0.01", "0.0", "1.838", "-0.5"
FloatStr(n) ==
    LET a == IF n < 0 THEN 0 - n ELSE n
    IN  (IF n < 0 THEN <<"-">> ELSE <<>>)
            \o NatStr(a \div Scale) \o <<".">> \o FracStr(a % Scale, ScaleDigits)

--------------------------------------------------------------------------
(* Values of type Union[float, str, None] *)

Num(n) == [kind |-> "float", n |-> n]
Str(s) == [kind |-> "str", s |-> s]
None == [kind |-> "None"]

\* str(value)
PyStr(value) ==
    IF value.kind = "float" THEN FloatStr(value.n)
    ELSE IF value.kind = "str" THEN value.s
    ELSE <<"N", "o", "n", "e">>

\* float(value): TypeError for None, ValueError for text that is no number
PyFloat(value) ==
    IF value.kind = "float" THEN [ok |-> TRUE, n |-> value.n]
    ELSE IF value.kind = "str" THEN ParseFloat(value.s)
    ELSE [ok |-> FALSE]

--------------------------------------------------------------------------
(* Python dict: a sequence of <<key, value>> pairs, keys distinct *)

DictKeys(d) == [i \in 1..Len(d) |-> d[i][1]]
DictHas(d, k) == \E i \in 1..Len(d) : d[i][1] = k
DictGet(d, k) == d[CHOOSE i \in 1..Len(d) : d[i][1] = k][2]
\* d[k] = v: an existing key keeps its place, a new key goes last
DictSet(d, k, v) ==
    IF DictHas(d, k)
    THEN [i \in 1..Len(d) |-> IF d[i][1] = k THEN <<k, v>> ELSE d[i]]
    ELSE Append(d, <<k, v>>)
\* the set of key/value pairs
DictItems(d) == {d[i] : i \in 1..Len(d)}

--------------------------------------------------------------------------
(* soa_dsl_implementation.py: SOAParameter *)

Severity == {"high", "medium", "low"}
ParameterType == {"voltage", "current", "temperature", "general"}

SOAParameter(name, severity, param_type, unit, values, conditions, description) ==
    [name |-> name, severity |-> severity, param_type |-> param_type,
     unit |-> unit, values |-> values, conditions |-> conditions,
     description |-> description]

Abs(x) == IF x < 0 THEN 0 - x ELSE x

\* min(seq, key=...): the index of the first element whose key is least
FirstMin(keys) ==
    CHOOSE i \in 1..Len(keys) :
        /\ \A j \in 1..Len(keys) : keys[i] <= keys[j]
        /\ \A j \in 1..(i - 1) : keys[j] > keys[i]

\* A seeded fault: the distance to the request is taken without abs().
get_value_at_tmaxfrac_signed(self, tmaxfrac) ==
    IF DictHas(self.values, tmaxfrac) THEN DictGet(self.values, tmaxfrac)
    ELSE IF Len(self.values) > 0
    THEN LET keys == [i \in 1..Len(self.values) |-> self.values[i][1] - tmaxfrac]
         IN  self.values[FirstMin(keys)][2]
    ELSE None

\* A seeded fault: no exact-match branch, and the distance without abs().
get_value_at_tmaxfrac_search(self, tmaxfrac) ==
    IF Len(self.values) > 0
    THEN LET keys == [i \in 1..Len(self.values) |-> self.values[i][1] - tmaxfrac]
         IN  self.values[FirstMin(keys)][2]
    ELSE None

\* A seeded fault: of several nearest keys the last one is taken.
get_value_at_tmaxfrac_last(self, tmaxfrac) ==
    IF DictHas(self.values, tmaxfrac) THEN DictGet(self.values, tmaxfrac)
    ELSE IF Len(self.values) > 0
    THEN LET keys == [i \in 1..Len(self.values) |->
                        Abs(self.values[Len(self.values) + 1 - i][1] - tmaxfrac)]
         IN  self.values[Len(self.values) + 1 - FirstMin(keys)][2]
    ELSE None

\* SOAParameter.get_value_at_tmaxfrac(tmaxfrac)
get_value_at_tmaxfrac(self, tmaxfrac) ==
    IF DictHas(self.values, tmaxfrac) THEN DictGet(self.values, tmaxfrac)
    ELSE IF Len(self.values) > 0
    THEN LET keys == [i \in 1..Len(self.values) |-> Abs(self.values[i][1] - tmaxfrac)]
         IN  self.values[FirstMin(keys)][2]
    ELSE None

\* SOAParameter.is_no_limit(tmaxfrac)
is_no_limit(self, tmaxfrac) ==
    Lower(PyStr(get_value_at_tmaxfrac(self, tmaxfrac))) = S_no_limit

S_high == <<"h", "i", "g", "h">>
S_max == <<"m", "a", "x">>
S_low == <<"l", "o", "w">>
S_min == <<"m", "i", "n">>

\* A seeded fault: the upper-bound comparison is strict.
validate_value_strict(self, test_value, tmaxfrac) ==
    LET limit == get_value_at_tmaxfrac(self, tmaxfrac)
        f == PyFloat(limit)
        name == Lower(self.name)
    IN  IF is_no_limit(self, tmaxfrac) THEN TRUE
        ELSE IF ~f.ok THEN TRUE
        ELSE IF Contains(S_high, name) \/ Contains(S_max, name)
        THEN test_value < f.n
        ELSE IF Contains(S_low, name) \/ Contains(S_min, name)
        THEN test_value >= f.n
        ELSE test_value < f.n

\* A seeded fault: a no-limit threshold is answered with a failure.
validate_value_no_limit_fails(self, test_value, tmaxfrac) ==
    LET limit == get_value_at_tmaxfrac(self, tmaxfrac)
        f == PyFloat(limit)
        name == Lower(self.name)
    IN  IF is_no_limit(self, tmaxfrac) THEN FALSE
        ELSE IF ~f.ok THEN TRUE
        ELSE IF Contains(S_high, name) \/ Contains(S_max, name)
        THEN test_value <= f.n
        ELSE IF Contains(S_low, name) \/ Contains(S_min, name)
        THEN test_value >= f.n
        ELSE test_value <= f.n

\* A seeded fault: the names with "low" or "min" are tested first.
validate_value_low_first(self, test_value, tmaxfrac) ==
    LET limit == get_value_at_tmaxfrac(self, tmaxfrac)
        f == PyFloat(limit)
        name == Lower(self.name)
    IN  IF is_no_limit(self, tmaxfrac) THEN TRUE
        ELSE IF ~f.ok THEN TRUE
        ELSE IF Contains(S_low, name) \/ Contains(S_min, name)
        THEN test_value >= f.n
        ELSE test_value <= f.n

\* A seeded fault: an upper bound is compared with the value's magnitude.
validate_value_magnitude(self, test_value, tmaxfrac) ==
    LET limit == get_value_at_tmaxfrac(self, tmaxfrac)
        f == PyFloat(limit)
        name == Lower(self.name)
    IN  IF is_no_limit(self, tmaxfrac) THEN TRUE
        ELSE IF ~f.ok THEN TRUE
        ELSE IF Contains(S_high, name) \/ Contains(S_max, name)
        THEN Abs(test_value) <= f.n
        ELSE IF Contains(S_low, name) \/ Contains(S_min, name)
        THEN test_value >= f.n
        ELSE Abs(test_value) <= f.n

\* A seeded fault: a limit of low severity is not enforced.
validate_value_by_severity(self, test_value, tmaxfrac) ==
    LET limit == get_value_at_tmaxfrac(self, tmaxfrac)
        f == PyFloat(limit)
        name == Lower(self.name)
    IN  IF is_no_limit(self, tmaxfrac) THEN TRUE
        ELSE IF ~f.ok THEN TRUE
        ELSE IF self.severity = "low" THEN TRUE
        ELSE IF Contains(S_high, name) \/ Contains(S_max, name)
        THEN test_value <= f.n
        ELSE IF Contains(S_low, name) \/ Contains(S_min, name)
        THEN test_value >= f.n
        ELSE test_value <= f.n

\* SOAParameter.validate_value(test_value, tmaxfrac): float(limit) raising
\* ValueError or TypeError is caught and answered with True.
validate_value(self, test_value, tmaxfrac) ==
    LET limit == get_value_at_tmaxfrac(self, tmaxfrac)
        f == PyFloat(limit)
        name == Lower(self.name)
    IN  IF is_no_limit(self, tmaxfrac) THEN TRUE
        ELSE IF ~f.ok THEN TRUE
        ELSE IF Contains(S_high, name) \/ Contains(S_max, name)
        THEN test_value <= f.n
        ELSE IF Contains(S_low, name) \/ Contains(S_min, name)
        THEN test_value >= f.n
        ELSE test_value <= f.n

--------------------------------------------------------------------------
(* soa_dsl_implementation.py: DeviceRules and SOARulesEngine *)

DeviceRules(device_type, subcategory, tmaxfrac_levels, parameters, metadata) ==
    [device_type |-> device_type, subcategory |-> subcategory,
     tmaxfrac_levels |-> tmaxfrac_levels, parameters |-> parameters,
     metadata |-> metadata]

\* SOARulesEngine.__init__: global_config
DefaultGlobalConfig ==
    [version |-> "1.0", technology |-> "smos10hv",
     temperature_scaling |-> [enabled |-> TRUE, method |-> "tmaxfrac"]]

\* SOARulesEngine(): the fields of a new engine
NewEngine == [devices |-> <<>>, global_config |-> DefaultGlobalConfig]

RECURSIVE MergedParameters(_, _, _)
\* `into`, with the first i items of `from` that it lacks
MergedParameters(into, from, i) ==
    IF i = 0 THEN into
    ELSE IF DictHas(MergedParameters(into, from, i - 1), from[i][1])
    THEN MergedParameters(into, from, i - 1)
    ELSE DictSet(MergedParameters(into, from, i - 1), from[i][1], from[i][2])

\* A seeded fault: the parameters of a rule set already stored under the
\* key are merged into the new one.
add_device_merge(devs, device_key, rules) ==
    IF DictHas(devs, device_key)
    THEN DictSet(devs, device_key,
                 [rules EXCEPT !.parameters =
                    MergedParameters(rules.parameters,
                                     DictGet(devs, device_key).parameters,
                                     Len(DictGet(devs, device_key).parameters))])
    ELSE DictSet(devs, device_key, rules)

\* SOARulesEngine.add_device(device_key, rules), on the devices dict
add_device(devs, device_key, rules) == DictSet(devs, device_key, rules)

\* the JSON object {}
EmptyObject == [k \in {} |-> k]

\* d.get(k, default) on a JSON object
Get(d, k, default) == IF k \in DOMAIN d THEN d[k] ELSE default

\* a.update(b) on the global configuration
Update(a, b) ==
    [k \in DOMAIN a \cup DOMAIN b |-> IF k \in DOMAIN b THEN b[k] ELSE a[k]]

RECURSIVE FloatKeyed(_, _)
\* {float(k): v for k, v in ml_values.items()}, the first i items; every k
\* parses
FloatKeyed(ml, i) ==
    IF i = 0 THEN <<>>
    ELSE DictSet(FloatKeyed(ml, i - 1), ParseFloat(ml[i][1]).n, ml[i][2])

\* Below, a value that is used several times is bound once as the element
\* of a one-element set: {e(x) : x \in {v}} is the set holding e(v).
The(S) == CHOOSE x \in S : TRUE

\* The body of the loop of _load_device_from_dict for one parameter: the
\* SOAParameter built, or the ValueError of float(k), Severity(...) or
\* ParameterType(...).
load_parameter(param_name, param_data) ==
    The({IF \E i \in 1..Len(ml_values) : ~ParseFloat(ml_values[i][1]).ok
         THEN [raised |-> "ValueError"]
         ELSE IF Get(param_data, "severity", "high") \notin Severity
                 \/ Get(param_data, "type", "general") \notin ParameterType
         THEN [raised |-> "ValueError"]
         ELSE [raised |-> "None",
               param |-> SOAParameter(Get(param_data, "name", param_name),
                                      Get(param_data, "severity", "high"),
                                      Get(param_data, "type", "general"),
                                      Get(param_data, "unit", ""),
                                      FloatKeyed(ml_values, Len(ml_values)),
                                      <<>>,
                                      Get(param_data, "description", ""))] :
         ml_values \in {IF /\ "values" \in DOMAIN param_data
                           /\ "multi_level" \in DOMAIN param_data["values"]
                        THEN param_data["values"]["multi_level"]
                        ELSE <<>>}})

RECURSIVE load_parameters(_, _, _)
\* The loop over device_data['parameters'].items() from item i on, with the
\* dict `parameters` built so far: it ends at the first exception.
load_parameters(items, i, parameters) ==
    IF i > Len(items) THEN [raised |-> "None", parameters |-> parameters]
    ELSE The({IF r.raised # "None"
              THEN [raised |-> r.raised, parameters |-> parameters]
              ELSE load_parameters(items, i + 1,
                                   DictSet(parameters, items[i][1], r.param)) :
              r \in {load_parameter(items[i][1], items[i][2])}})

\* the DeviceRules that _load_device_from_dict builds around `parameters`
loaded_device_rules(device_data, parameters) ==
    DeviceRules(Get(device_data, "device_type", "unknown"),
                Get(device_data, "subcategory", "general"),
                Get(Get(device_data, "multi_level", EmptyObject), "tmaxfrac_levels", <<>>),
                parameters,
                Get(device_data, "metadata", <<>>))

\* the loop of _load_device_from_dict, skipped without 'parameters'
loaded_parameters(device_data) ==
    IF "parameters" \in DOMAIN device_data
    THEN load_parameters(device_data["parameters"], 1, <<>>)
    ELSE [raised |-> "None", parameters |-> <<>>]

\* A seeded fault: the device is put in the registry although building one
\* of its parameters failed, with the parameters built before the failure.
load_device_from_dict_partial(devs, device_key, device_data) ==
    The({[raised |-> ps.raised,
          devices |-> add_device(devs, device_key,
                                 loaded_device_rules(device_data, ps.parameters))] :
         ps \in {loaded_parameters(device_data)}})

\* SOARulesEngine._load_device_from_dict(device_key, device_data), on the
\* devices dict: the exception raised ("None" for none) and the dict after.
load_device_from_dict(devs, device_key, device_data) ==
    The({IF ps.raised # "None"
         THEN [raised |-> ps.raised, devices |-> devs]
         ELSE [raised |-> "None",
               devices |-> add_device(devs, device_key,
                                      loaded_device_rules(device_data, ps.parameters))] :
         ps \in {loaded_parameters(device_data)}})

RECURSIVE load_devices(_, _, _)
\* The loop of load_from_json over rules_data['devices'].items() from item
\* i on.  An exception ends it: `failed` is the item it was raised in and
\* `before` the devices dict as that item found it.
load_devices(devs, items, i) ==
    IF i > Len(items)
    THEN [raised |-> "None", devices |-> devs, failed |-> 0, before |-> devs]
    ELSE The({IF r.raised # "None"
              THEN [raised |-> r.raised, devices |-> r.devices, failed |-> i,
                    before |-> devs]
              ELSE load_devices(r.devices, items, i + 1) :
              r \in {load_device_from_dict(devs, items[i][1], items[i][2])}})

\* A seeded fault: the devices of the document replace those of the
\* registry.
load_from_json_replace(self, json_data) ==
    IF "soa_rules" \notin DOMAIN json_data
    THEN [self |-> self, raised |-> "None", failed |-> 0, before |-> self.devices]
    ELSE The({[self |-> [devices |-> r.devices,
                         global_config |->
                            IF "global_config" \in DOMAIN json_data["soa_rules"]
                            THEN Update(self.global_config,
                                        json_data["soa_rules"]["global_config"])
                            ELSE self.global_config],
               raised |-> r.raised, failed |-> r.failed, before |-> r.before] :
              r \in {IF "devices" \in DOMAIN json_data["soa_rules"]
                     THEN load_devices(<<>>, json_data["soa_rules"]["devices"], 1)
                     ELSE [raised |-> "None", devices |-> self.devices,
                           failed |-> 0, before |-> self.devices]}})

\* SOARulesEngine.load_from_json(json_data) on an engine `self`: the engine
\* after the call and the exception that ended it, if any.
load_from_json(self, json_data) ==
    IF "soa_rules" \notin DOMAIN json_data
    THEN [self |-> self, raised |-> "None", failed |-> 0, before |-> self.devices]
    ELSE The({[self |-> [devices |-> r.devices,
                         global_config |->
                            IF "global_config" \in DOMAIN json_data["soa_rules"]
                            THEN Update(self.global_config,
                                        json_data["soa_rules"]["global_config"])
                            ELSE self.global_config],
               raised |-> r.raised, failed |-> r.failed, before |-> r.before] :
              r \in {IF "devices" \in DOMAIN json_data["soa_rules"]
                     THEN load_devices(self.devices,
                                       json_data["soa_rules"]["devices"], 1)
                     ELSE [raised |-> "None", devices |-> self.devices,
                           failed |-> 0, before |-> self.devices]}})

RECURSIVE StrKeyed(_, _)
\* {str(k): v for k, v in param.values.items()}, the first i items
StrKeyed(values, i) ==
    IF i = 0 THEN <<>>
    ELSE DictSet(StrKeyed(values, i - 1), FloatStr(values[i][1]), values[i][2])

\* the entry export_to_json writes for one parameter
export_parameter(param) ==
    [name |-> param.name, severity |-> param.severity, type |-> param.param_type,
     unit |-> param.unit,
     values |-> [multi_level |-> StrKeyed(param.values, Len(param.values))],
     description |-> param.description]

\* the entry export_to_json writes for one device
export_device(device_rules) ==
    [device_type |-> device_rules.device_type,
     subcategory |-> device_rules.subcategory,
     multi_level |-> [enabled |-> Len(device_rules.tmaxfrac_levels) > 1,
                      tmaxfrac_levels |-> device_rules.tmaxfrac_levels],
     parameters |-> [i \in 1..Len(device_rules.parameters) |->
                        <<device_rules.parameters[i][1],
                          export_parameter(device_rules.parameters[i][2])>>]]

\* SOARulesEngine.export_to_json()
export_to_json(self) ==
    [soa_rules |->
        [version |-> self.global_config["version"],
         technology |-> self.global_config["technology"],
         global_config |-> self.global_config,
         devices |-> [i \in 1..Len(self.devices) |->
                        <<self.devices[i][1], export_device(self.devices[i][2])>>]]]

--------------------------------------------------------------------------
(* corrected_tmaxfrac_analysis.py: the two transient time-fraction checks *)

\* A TransientTimeLimit / TransientConstraint object.
TransientLimit(limit, fraction) ==
    [voltage_limit |-> limit, max_time_fraction |-> fraction]

\* A seeded fault: a threshold given as text is never converted.
is_violation_text_skipped(self, applied_voltage, time_duration, total_transient_time) ==
    IF self.voltage_limit.kind = "str" THEN FALSE
    ELSE IF ~(applied_voltage > self.voltage_limit.n) THEN FALSE
    ELSE IF self.max_time_fraction = 0 THEN TRUE
    ELSE time_duration * Scale > self.max_time_fraction * total_transient_time

\* TransientTimeLimit.is_violation(applied_voltage, time_duration,
\* total_transient_time) -> bool
is_violation(self, applied_voltage, time_duration, total_transient_time) ==
    IF self.voltage_limit.kind = "str" /\ Lower(self.voltage_limit.s) = S_no_limit
    THEN FALSE
    ELSE LET f == PyFloat(self.voltage_limit)
         IN  IF ~f.ok THEN FALSE
             ELSE IF ~(applied_voltage > f.n) THEN FALSE
             ELSE IF self.max_time_fraction = 0 THEN TRUE
             ELSE \* time_duration > max_time_fraction * total_transient_time
                  time_duration * Scale > self.max_time_fraction * total_transient_time

\* The message validate_transient returns: its text's varying parts.
Critical(limit) == [kind |-> "str", text |-> "CRITICAL", limit |-> limit]
TimeViolation(limit, duration, allowed, fraction) ==
    [kind |-> "str", text |-> "Time violation", limit |-> limit,
     duration |-> duration, allowed |-> allowed, fraction |-> fraction]

\* A seeded fault: a duration equal to the allowed time is a violation.
validate_transient_at_boundary(self, applied_voltage, duration, total_time) ==
    LET f == PyFloat(self.voltage_limit)
    IN  IF self.voltage_limit.kind = "str" /\ Lower(self.voltage_limit.s) = S_no_limit
        THEN None
        ELSE IF ~f.ok THEN None
        ELSE IF applied_voltage < f.n THEN None
        ELSE IF self.max_time_fraction = 0 THEN Critical(f.n)
        ELSE IF duration * Scale >= self.max_time_fraction * total_time
        THEN TimeViolation(f.n, duration, self.max_time_fraction * total_time,
                           self.max_time_fraction)
        ELSE None

\* A seeded fault: the test that skips a voltage below the limit is left out.
validate_transient_no_skip(self, applied_voltage, duration, total_time) ==
    LET f == PyFloat(self.voltage_limit)
    IN  IF self.voltage_limit.kind = "str" /\ Lower(self.voltage_limit.s) = S_no_limit
        THEN None
        ELSE IF ~f.ok THEN None
        ELSE IF self.max_time_fraction = 0 THEN Critical(f.n)
        ELSE IF duration * Scale > self.max_time_fraction * total_time
        THEN TimeViolation(f.n, duration, self.max_time_fraction * total_time,
                           self.max_time_fraction)
        ELSE None

\* TransientConstraint.validate_transient(applied_voltage, duration,
\* total_time) -> Optional[str]
validate_transient(self, applied_voltage, duration, total_time) ==
    LET f == PyFloat(self.voltage_limit)
    IN  IF self.voltage_limit.kind = "str" /\ Lower(self.voltage_limit.s) = S_no_limit
        THEN None
        ELSE IF ~f.ok THEN None
        ELSE IF applied_voltage < f.n THEN None
        ELSE IF self.max_time_fraction = 0 THEN Critical(f.n)
        ELSE IF duration * Scale > self.max_time_fraction * total_time
        THEN TimeViolation(f.n, duration, self.max_time_fraction * total_time,
                           self.max_time_fraction)
        ELSE None

--------------------------------------------------------------------------
(* Inputs of the transient checks *)

\* thresholds: 1.65 V, 1.71 V, 1.838 V, the sentinel in two spellings, a
\* number given as text, and text that is no number
ThresholdValues ==
    {Num(1650), Num(1710), Num(1838), Str(S_no_limit), Str(S_No_Limit),
     Str(S_1_71), Str(S_abc)}
\* tmaxfrac 0, 0.01, 0.1
Fractions == {0, 10, 100}
AppliedVoltages == {1500, 1700, 1710, 1750, 1838, 1850}
\* 0.1 us, 0.9 us, 1 us, 1.1 us, 5 us
Durations == {1, 9, 10, 11, 50}
\* 10 us, 100 us
TotalTimes == {100, 1000}

TransientLimits ==
    {TransientLimit(l, f) : l \in ThresholdValues, f \in Fractions}

--------------------------------------------------------------------------
(* The state: the fields of one SOARulesEngine and the outcome of the    *)
(* last call.                                                             *)

engines == <<devices, global_config>>

EnginesInit ==
    /\ devices = NewEngine.devices
    /\ global_config = NewEngine.global_config

\* The transient checks are pure: the arguments of one call are drawn first,
\* then the call is made.
InitTransient ==
    /\ EnginesInit
    /\ \E lim \in TransientLimits, v \in AppliedVoltages, d \in Durations,
          T \in TotalTimes :
            result = [op |-> "args", self |-> lim, applied_voltage |-> v,
                      duration |-> d, total_time |-> T]

IsViolation ==
    /\ result.op = "args"
    /\ result' = [op |-> "is_violation", self |-> result.self,
                  applied_voltage |-> result.applied_voltage,
                  duration |-> result.duration, total_time |-> result.total_time,
                  ret |-> is_violation(result.self, result.applied_voltage,
                                       result.duration, result.total_time)]
    /\ UNCHANGED engines

ValidateTransient ==
    /\ result.op = "args"
    /\ result' = [op |-> "validate_transient", self |-> result.self,
                  applied_voltage |-> result.applied_voltage,
                  duration |-> result.duration, total_time |-> result.total_time,
                  ret |-> validate_transient(result.self, result.applied_voltage,
                                             result.duration, result.total_time)]
    /\ UNCHANGED engines

NextTransient == IsViolation \/ ValidateTransient

SpecTransient == InitTransient /\ [][NextTransient]_vars

--------------------------------------------------------------------------
(* Claims about the transient checks *)

IsTransientCall == result.op \in {"is_violation", "validate_transient"}

\* whether the last transient call reported a violation
ReportsViolation ==
    IF result.op = "is_violation" THEN result.ret = TRUE
    ELSE result.ret.kind = "str"

\* C1: with a numeric threshold L and maxTimeFraction == 0, every applied
\* value >= L (L itself included) is reported as a violation, whatever the
\* duration and the total time.
C1_ZeroFractionMeetOrExceed ==
    (/\ IsTransientCall
     /\ result.self.voltage_limit.kind = "float"
     /\ result.self.max_time_fraction = 0
     /\ result.applied_voltage >= result.self.voltage_limit.n)
        => ReportsViolation

\* The case of C2: threshold 1.71 V, maxTimeFraction 0.01, total 100 us.
C2_Case ==
    /\ IsTransientCall
    /\ result.self = TransientLimit(Num(1710), 10)
    /\ result.total_time = 1000

\* C2 as stated: 1.7 V for 0.9 us is compliant and 1.7 V for 1.1 us is a
\* violation.
C2_Original ==
    (C2_Case /\ result.applied_voltage = 1700)
        => /\ result.duration = 9 => ~ReportsViolation
           /\ result.duration = 11 => ReportsViolation

\* C2 (amended): 1.7 V is below the 1.71 V threshold and is compliant for
\* 0.9 us and for 1.1 us alike; 1.75 V for 0.9 us is compliant and 1.75 V
\* for 1.1 us is a violation.
C2_Boundary ==
    C2_Case =>
        /\ (result.applied_voltage = 1700 /\ result.duration \in {9, 11})
              => ~ReportsViolation
        /\ (result.applied_voltage = 1750 /\ result.duration = 9)
              => ~ReportsViolation
        /\ (result.applied_voltage = 1750 /\ result.duration = 11)
              => ReportsViolation

C2_Witness ==
    /\ C2_Case
    /\ result.op = "validate_transient"
    /\ result.applied_voltage = 1750
    /\ result.duration = 11
    /\ result.ret.kind = "str"
    /\ result.ret.text = "Time violation"

--------------------------------------------------------------------------
(* Inputs of the SOAParameter queries *)

\* the longest generated tmaxfrac table
MaxTableLen == 2

N_vhigh_ds_on == <<"v", "h", "i", "g", "h", "_", "d", "s", "_", "o", "n">>
N_vlow_gc == <<"v", "l", "o", "w", "_", "g", "c">>
N_imax == <<"i", "m", "a", "x">>
N_tmin == <<"t", "m", "i", "n">>
N_vfwd_jun == <<"v", "f", "w", "d", "_", "j", "u", "n">>
N_VLOW_GB == <<"V", "L", "O", "W", "_", "G", "B">>
N_vhigh_low == <<"v", "h", "i", "g", "h", "_", "l", "o", "w">>
N_test_param == <<"t", "e", "s", "t", "_", "p", "a", "r", "a", "m">>

ParamNames ==
    {N_vhigh_ds_on, N_vlow_gc, N_imax, N_tmin, N_vfwd_jun, N_VLOW_GB,
     N_vhigh_low, N_test_param}

\* tmaxfrac levels 0.0, 0.01, 0.1 and the thresholds of generated tables
TableKeys == {0, 10, 100}
TableVals == {Num(5000), Num(6000), Str(S_no_limit)}

\* every dict of at most n entries over TableKeys and TableVals, in every
\* insertion order
RECURSIVE TablesOfLen(_)
TablesOfLen(n) ==
    IF n = 0 THEN {<<>>}
    ELSE {Append(t, <<k, v>>) :
            t \in {u \in TablesOfLen(n - 1) : Len(u) = n - 1},
            k \in TableKeys, v \in TableVals}

GeneratedTables ==
    {t \in UNION {TablesOfLen(n) : n \in 0..MaxTableLen} :
        \A i, j \in 1..Len(t) : i # j => t[i][1] # t[j][1]}

\* the tables of the unit tests and of the specification's examples, and
\* tables with thresholds given as text
T_vhigh_ds_on == <<<<100, Num(1650)>>, <<10, Num(1710)>>, <<0, Num(1838)>>>>
T_no_limit == <<<<100, Str(S_no_limit)>>, <<10, Num(1500)>>, <<0, Num(1000)>>>>
T_567 == <<<<100, Num(5000)>>, <<10, Num(6000)>>, <<0, Num(7000)>>>>
T_text == <<<<100, Str(S_No_Limit)>>, <<10, Str(S_1_71)>>, <<0, Str(S_abc)>>>>
T_vlow == <<<<100, Num(-500)>>, <<0, Str(S_no_limit)>>>>

ExampleTables == {T_vhigh_ds_on, T_no_limit, T_567, T_text, T_vlow}

Tables == GeneratedTables \cup ExampleTables

QueryTmaxfracs == {0, 10, 50, 55, 100, 1000}
TestValues == {-2000, 1500, 1700, 5000, 6000, 999000}

Params ==
    {SOAParameter(n, "high", "voltage", "V", t, <<>>, "") :
        n \in ParamNames, t \in Tables}

\* The queries are pure: the parameter and the arguments of one call are
\* drawn first, then the call is made.
InitParam ==
    /\ EnginesInit
    /\ \E p \in Params, t \in QueryTmaxfracs, v \in TestValues :
            result = [op |-> "args", self |-> p, tmaxfrac |-> t, test_value |-> v]

GetValueAtTmaxfrac ==
    /\ result.op = "args"
    /\ result' = [op |-> "get_value_at_tmaxfrac", self |-> result.self,
                  tmaxfrac |-> result.tmaxfrac, test_value |-> result.test_value,
                  ret |-> get_value_at_tmaxfrac(result.self, result.tmaxfrac)]
    /\ UNCHANGED engines

IsNoLimit ==
    /\ result.op = "args"
    /\ result' = [op |-> "is_no_limit", self |-> result.self,
                  tmaxfrac |-> result.tmaxfrac, test_value |-> result.test_value,
                  ret |-> is_no_limit(result.self, result.tmaxfrac)]
    /\ UNCHANGED engines

ValidateValue ==
    /\ result.op = "args"
    /\ result' = [op |-> "validate_value", self |-> result.self,
                  tmaxfrac |-> result.tmaxfrac, test_value |-> result.test_value,
                  ret |-> validate_value(result.self, result.test_value,
                                         result.tmaxfrac)]
    /\ UNCHANGED engines

NextParam == GetValueAtTmaxfrac \/ IsNoLimit \/ ValidateValue

SpecParam == InitParam /\ [][NextParam]_vars

--------------------------------------------------------------------------
(* Claims about SOAParameter *)

\* C3: for a tmaxfrac that is a key of the table, get_value_at_tmaxfrac
\* returns exactly the entry stored under that key.
C3_ExactKey ==
    (result.op = "get_value_at_tmaxfrac"
        /\ \E e \in DictItems(result.self.values) : e[1] = result.tmaxfrac)
    => <<result.tmaxfrac, result.ret>> \in DictItems(result.self.values)

\* a key that is not the first of a table of several is looked up
C3_Witness ==
    /\ result.op = "get_value_at_tmaxfrac"
    /\ result.self.values = T_vhigh_ds_on
    /\ result.tmaxfrac = 10
    /\ result.ret = Num(1710)

\* C4: for a tmaxfrac that is not a key of a non-empty table, the entry of
\* a key at minimal absolute distance is returned; {0.1->5, 0.01->6, 0.0->7}
\* queried at 0.05 gives 6.
C4_Nearest ==
    (result.op = "get_value_at_tmaxfrac"
        /\ result.self.values # <<>>
        /\ \A e \in DictItems(result.self.values) : e[1] # result.tmaxfrac)
    => /\ \E e \in DictItems(result.self.values) :
            /\ result.ret = e[2]
            /\ \A o \in DictItems(result.self.values) :
                    Abs(e[1] - result.tmaxfrac) <= Abs(o[1] - result.tmaxfrac)
       /\ (result.self.values = T_567 /\ result.tmaxfrac = 50)
            => result.ret = Num(6000)

C4_Witness ==
    /\ result.op = "get_value_at_tmaxfrac"
    /\ result.self.values = T_567
    /\ result.tmaxfrac = 50
    /\ result.ret = Num(6000)

\* the markers of the comparison direction in a name, whatever its case
HasUpperMarker(name) ==
    Contains(S_high, Lower(name)) \/ Contains(S_max, Lower(name))
HasLowerMarker(name) ==
    Contains(S_low, Lower(name)) \/ Contains(S_min, Lower(name))

\* the last call was validate_value against a numeric threshold L
NumericThresholdCall ==
    /\ result.op = "validate_value"
    /\ LET limit == get_value_at_tmaxfrac(result.self, result.tmaxfrac)
       IN  /\ limit.kind \in {"float", "str"}
           /\ Lower(PyStr(limit)) # S_no_limit
           /\ PyFloat(limit).ok

ResolvedThreshold ==
    PyFloat(get_value_at_tmaxfrac(result.self, result.tmaxfrac)).n

\* C5 as stated: v <= L decides for names with "high" or "max", v >= L
\* decides for names with "low" or "min", v <= L for every other name.
C5_Original ==
    NumericThresholdCall =>
        /\ HasUpperMarker(result.self.name)
              => (result.ret <=> result.test_value <= ResolvedThreshold)
        /\ HasLowerMarker(result.self.name)
              => (result.ret <=> result.test_value >= ResolvedThreshold)
        /\ (~HasUpperMarker(result.self.name) /\ ~HasLowerMarker(result.self.name))
              => (result.ret <=> result.test_value <= ResolvedThreshold)

\* C5 (amended): v <= L decides for names with "high" or "max"; v >= L
\* decides for names with "low" or "min" and neither "high" nor "max";
\* v <= L decides for every other name; v = L passes in every case.  The
\* markers are matched whatever the case of the name.
C5_Direction ==
    NumericThresholdCall =>
        /\ HasUpperMarker(result.self.name)
              => (result.ret <=> result.test_value <= ResolvedThreshold)
        /\ (HasLowerMarker(result.self.name) /\ ~HasUpperMarker(result.self.name))
              => (result.ret <=> result.test_value >= ResolvedThreshold)
        /\ (~HasUpperMarker(result.self.name) /\ ~HasLowerMarker(result.self.name))
              => (result.ret <=> result.test_value <= ResolvedThreshold)
        /\ result.test_value = ResolvedThreshold => result.ret

\* a lower-bound name is refused a value below its threshold
C5_Witness ==
    /\ NumericThresholdCall
    /\ result.self.name = N_vlow_gc
    /\ result.test_value < ResolvedThreshold
    /\ result.ret = FALSE

\* C6: against a threshold that resolves to "no-limit", validate_value
\* passes for every observed value and every name.
C6_NoLimitPasses ==
    (result.op = "validate_value"
        /\ get_value_at_tmaxfrac(result.self, result.tmaxfrac) = Str(S_no_limit))
    => result.ret = TRUE

\* a large value against a no-limit threshold under an upper-bound name
C6_Witness ==
    /\ result.op = "validate_value"
    /\ get_value_at_tmaxfrac(result.self, result.tmaxfrac) = Str(S_no_limit)
    /\ result.self.name = N_vhigh_ds_on
    /\ result.test_value = 999000
    /\ result.ret = TRUE

--------------------------------------------------------------------------
(* Inputs of the engine: rule sets given to add_device and documents     *)
(* given to load_from_json                                                *)

\* the most device entries in a generated document
MaxDocDevices == 2

DeviceKeys == {"nmos_core", "test_device"}

N_alias == <<"a", "l", "i", "a", "s">>

P_vhigh_ds_on ==
    SOAParameter(N_vhigh_ds_on, "high", "voltage", "V", T_vhigh_ds_on, <<>>,
                 "High voltage limit for drain-source (on state)")
P_vlow_gc == SOAParameter(N_vlow_gc, "medium", "voltage", "V", T_vlow, <<>>, "")
P_test_param ==
    SOAParameter(N_test_param, "high", "voltage", "V", T_no_limit, <<>>, "")
\* a parameter with a condition, and with the levels 0.005 and 1.0
P_imax ==
    SOAParameter(N_imax, "low", "current", "A",
                 <<<<5, Num(2500)>>, <<0, Num(3000)>>, <<1000, Num(2000)>>>>,
                 <<[parameter |-> "temperature", operator |-> "<=",
                    value |-> Num(125000), description |-> "junction"]>>,
                 "")

D_mos ==
    DeviceRules("mos_transistor", "symmetric_on_off", <<100, 10, 0>>,
                <<<<N_vhigh_ds_on, P_vhigh_ds_on>>, <<N_vlow_gc, P_vlow_gc>>>>, <<>>)
D_test ==
    DeviceRules("test_device", "test_sub", <<100, 10>>,
                <<<<N_test_param, P_test_param>>>>, <<>>)
\* declared levels that are no keys of the table, and metadata
D_diode ==
    DeviceRules("diode", "general", <<5, 50, 1>>,
                <<<<N_imax, P_imax>>>>, <<<<"source", "sheet1">>>>)
\* a parameter stored under a key that is not its name
D_alias ==
    DeviceRules("mos_transistor", "general", <<100>>,
                <<<<N_alias, P_vhigh_ds_on>>>>, <<>>)
D_empty == DeviceRules("unknown", "general", <<>>, <<>>, <<>>)

RuleSets == {D_mos, D_test, D_diode, D_alias, D_empty}

K_0_1 == <<"0", ".", "1">>
K_0_01 == <<"0", ".", "0", "1">>
K_0_0 == <<"0", ".", "0">>

\* parameter entries of a document: complete, with defaults only, without
\* `values`, without `values.multi_level`, and three that cannot be built
PD_full ==
    [name |-> N_vhigh_ds_on, severity |-> "high", type |-> "voltage", unit |-> "V",
     values |-> [multi_level |-> <<<<K_0_1, Num(1650)>>, <<K_0_01, Num(1710)>>,
                                   <<K_0_0, Num(1838)>>>>],
     description |-> ""]
PD_defaults == [values |-> [multi_level |-> <<<<K_0_1, Str(S_no_limit)>>>>]]
PD_no_values == [severity |-> "low", type |-> "current", unit |-> "A"]
PD_no_multi_level == [severity |-> "medium", values |-> [single |-> Num(1000)]]
PD_bad_severity ==
    [severity |-> "critical", values |-> [multi_level |-> <<<<K_0_1, Num(1650)>>>>]]
PD_bad_type ==
    [type |-> "resistance", values |-> [multi_level |-> <<<<K_0_1, Num(1650)>>>>]]
PD_bad_key == [values |-> [multi_level |-> <<<<S_abc, Num(1650)>>>>]]

\* device entries of a document
DD_full ==
    [device_type |-> "mos_transistor", subcategory |-> "symmetric_on_off",
     multi_level |-> [enabled |-> TRUE, tmaxfrac_levels |-> <<100, 10, 0>>],
     parameters |-> <<<<N_vhigh_ds_on, PD_full>>, <<N_test_param, PD_defaults>>>>]
DD_no_parameters == [device_type |-> "diode", subcategory |-> "general"]
DD_no_values ==
    [device_type |-> "diode",
     parameters |-> <<<<N_imax, PD_no_values>>, <<N_tmin, PD_no_multi_level>>>>]
DD_bad_severity ==
    [device_type |-> "mos_transistor",
     parameters |-> <<<<N_vhigh_ds_on, PD_full>>, <<N_vlow_gc, PD_bad_severity>>>>]
DD_bad_type ==
    [device_type |-> "mos_transistor",
     parameters |-> <<<<N_vhigh_ds_on, PD_bad_type>>, <<N_vlow_gc, PD_full>>>>]
DD_bad_key ==
    [device_type |-> "mos_transistor",
     parameters |-> <<<<N_vhigh_ds_on, PD_full>>, <<N_test_param, PD_defaults>>,
                      <<N_vlow_gc, PD_bad_key>>>>]

DeviceEntries ==
    {DD_full, DD_no_parameters, DD_no_values, DD_bad_severity, DD_bad_type,
     DD_bad_key}

\* the devices object of a document: at most MaxDocDevices entries under
\* distinct keys, in either order
DocDevices ==
    {<<>>}
    \cup {<<<<k, d>>>> : k \in DeviceKeys, d \in DeviceEntries}
    \cup {<<<<k1, d1>>, <<k2, d2>>>> :
            k1 \in DeviceKeys, k2 \in {k \in DeviceKeys : MaxDocDevices >= 2},
            d1 \in {DD_full, DD_no_parameters}, d2 \in DeviceEntries}

G_v2 == [version |-> "2.0", description |-> "transient"]

Documents ==
    {EmptyObject, [soa_rules |-> EmptyObject],
     [soa_rules |-> [version |-> "2.0", global_config |-> G_v2]]}
    \cup {[soa_rules |-> [devices |-> ds]] :
            ds \in {x \in DocDevices :
                        \A i, j \in 1..Len(x) : i # j => x[i][1] # x[j][1]}}
    \cup {[soa_rules |-> [global_config |-> G_v2, devices |-> <<<<k, d>>>>]] :
            k \in DeviceKeys, d \in {DD_full, DD_bad_severity}}

--------------------------------------------------------------------------
(* The engine's operations *)

Init ==
    /\ EnginesInit
    /\ result = [op |-> "init"]

Self == [devices |-> devices, global_config |-> global_config]

AddDevice ==
    \E k \in DeviceKeys, rules \in RuleSets :
        /\ devices' = add_device(devices, k, rules)
        /\ result' = [op |-> "add_device", device_key |-> k, rules |-> rules,
                      before |-> devices]
        /\ UNCHANGED global_config

LoadFromJson ==
    \E doc \in Documents :
        \E r \in {load_from_json(Self, doc)} :
            /\ devices' = r.self.devices
            /\ global_config' = r.self.global_config
            /\ result' = [op |-> "load_from_json", json_data |-> doc,
                          raised |-> r.raised, failed |-> r.failed,
                          before |-> r.before]

\* test_soa_rules_engine_export_import: json_data = engine.export_to_json();
\* new_engine = SOARulesEngine(); new_engine.load_from_json(json_data)
ExportImport ==
    \E r \in {load_from_json(NewEngine, export_to_json(Self))} :
        /\ result' = [op |-> "export_import", raised |-> r.raised,
                      new_engine |-> r.self]
        /\ UNCHANGED engines

Next == AddDevice \/ LoadFromJson \/ ExportImport

Spec == Init /\ [][Next]_vars

--------------------------------------------------------------------------
(* Claims about export_to_json and load_from_json *)

KeySet(d) == {d[i][1] : i \in 1..Len(d)}

\* the levels a device declares
DeclaredLevels(device_rules) ==
    {device_rules.tmaxfrac_levels[i] : i \in 1..Len(device_rules.tmaxfrac_levels)}

\* C7: loading export_to_json(R) into a new engine gives the same device
\* keys, the same parameter names per device and the same
\* get_value_at_tmaxfrac for every parameter at every declared level.
C7_RoundTrip ==
    result.op = "export_import" =>
        /\ result.raised = "None"
        /\ KeySet(result.new_engine.devices) = KeySet(devices)
        /\ \A k \in KeySet(devices) :
            /\ KeySet(DictGet(result.new_engine.devices, k).parameters)
                    = KeySet(DictGet(devices, k).parameters)
            /\ \A n \in KeySet(DictGet(devices, k).parameters) :
                \A t \in DeclaredLevels(DictGet(devices, k)) :
                    get_value_at_tmaxfrac(
                        DictGet(DictGet(result.new_engine.devices, k).parameters, n), t)
                    = get_value_at_tmaxfrac(
                        DictGet(DictGet(devices, k).parameters, n), t)

\* two devices are exported and loaded, one with the levels 0.005 and 0.001
C7_Witness ==
    /\ result.op = "export_import"
    /\ Len(devices) = 2
    /\ \E k \in KeySet(devices) : DictGet(devices, k) = D_diode
    /\ Len(result.new_engine.devices) = 2

\* every field of a parameter is equal, the table as a set of pairs
SameParameter(p, q) ==
    /\ p.name = q.name
    /\ p.severity = q.severity
    /\ p.param_type = q.param_type
    /\ p.unit = q.unit
    /\ DictItems(p.values) = DictItems(q.values)
    /\ p.conditions = q.conditions
    /\ p.description = q.description

\* every field of a device is equal
SameDevice(a, b) ==
    /\ a.device_type = b.device_type
    /\ a.subcategory = b.subcategory
    /\ a.tmaxfrac_levels = b.tmaxfrac_levels
    /\ DictItems(a.metadata) = DictItems(b.metadata)
    /\ KeySet(a.parameters) = KeySet(b.parameters)
    /\ \A n \in KeySet(a.parameters) :
            SameParameter(DictGet(a.parameters, n), DictGet(b.parameters, n))

\* C8: the export/load round trip preserves every field of every device
\* and of every parameter.
C8_EveryField ==
    result.op = "export_import" =>
        /\ KeySet(result.new_engine.devices) = KeySet(devices)
        /\ \A k \in KeySet(devices) :
                SameDevice(DictGet(devices, k), DictGet(result.new_engine.devices, k))

\* a document with soa_rules that lacks `devices`, or has a device entry
\* without `parameters`, or a parameter without `values.multi_level`
LacksRequiredField(json_data) ==
    /\ "soa_rules" \in DOMAIN json_data
    /\ \/ "devices" \notin DOMAIN json_data["soa_rules"]
       \/ \E i \in 1..Len(json_data["soa_rules"]["devices"]) :
            LET device_data == json_data["soa_rules"]["devices"][i][2]
            IN  \/ "parameters" \notin DOMAIN device_data
                \/ \E j \in 1..Len(device_data["parameters"]) :
                     LET param_data == device_data["parameters"][j][2]
                     IN  \/ "values" \notin DOMAIN param_data
                         \/ "multi_level" \notin DOMAIN param_data["values"]

\* C9: load_from_json on a document that lacks `devices`, `parameters` or
\* `values.multi_level` fails during the call; it never completes
\* successfully.
C9_MissingFieldFails ==
    (result.op = "load_from_json" /\ LacksRequiredField(result.json_data))
        => result.raised # "None"

\* the device entry in which the last load_from_json failed
FailedEntry == result.json_data["soa_rules"]["devices"][result.failed]

\* C10: when building a device entry fails partway, the registry's mapping
\* for that device key is what it was before the entry was processed.
C10_AllOrNothing ==
    (result.op = "load_from_json" /\ result.raised # "None") =>
        /\ DictHas(devices, FailedEntry[1]) <=> DictHas(result.before, FailedEntry[1])
        /\ DictHas(devices, FailedEntry[1]) =>
                DictGet(devices, FailedEntry[1]) = DictGet(result.before, FailedEntry[1])

\* an entry fails on its third parameter, under a key the registry has
C10_Witness ==
    /\ result.op = "load_from_json"
    /\ result.raised = "ValueError"
    /\ FailedEntry[2] = DD_bad_key
    /\ DictHas(result.before, FailedEntry[1])
    /\ DictGet(devices, FailedEntry[1]) = D_mos

\* C11: a load_from_json call that fails on a device entry leaves the
\* registry as it was before the call: the devices of earlier entries of
\* the document and the document's global_config are not in it.
C11_FailedLoadRestores ==
    [][(result'.op = "load_from_json" /\ result'.raised # "None")
            => UNCHANGED engines]_vars

--------------------------------------------------------------------------
(* soa_dsl_implementation.py: the compliance queries *)

\* The f-string validate_conditions appends: its literal and its formatted
\* parts, in order.
ViolationMessage(param_name, test_val, param, limit, tmaxfrac) ==
    <<param_name, ": ", PyStr(Num(test_val)), " violates ", param.severity,
      " limit of ", PyStr(limit), " ", param.unit, " at tmaxfrac=",
      PyStr(Num(tmaxfrac))>>

RECURSIVE validate_conditions_from(_, _, _, _)
\* The loop of validate_conditions over self.parameters.items() from item i
\* on: the violations it appends.
validate_conditions_from(self, tmaxfrac, test_values, i) ==
    IF i > Len(self.parameters) THEN <<>>
    ELSE (IF DictHas(test_values, self.parameters[i][1])
          THEN IF ~validate_value(self.parameters[i][2],
                                  DictGet(test_values, self.parameters[i][1]),
                                  tmaxfrac)
               THEN <<ViolationMessage(
                        self.parameters[i][1],
                        DictGet(test_values, self.parameters[i][1]),
                        self.parameters[i][2],
                        get_value_at_tmaxfrac(self.parameters[i][2], tmaxfrac),
                        tmaxfrac)>>
               ELSE <<>>
          ELSE <<>>)
         \o validate_conditions_from(self, tmaxfrac, test_values, i + 1)

\* A seeded fault: the loop returns at the first violation.
validate_conditions_first(self, tmaxfrac, test_values) ==
    IF validate_conditions_from(self, tmaxfrac, test_values, 1) = <<>> THEN <<>>
    ELSE <<Head(validate_conditions_from(self, tmaxfrac, test_values, 1))>>

\* DeviceRules.validate_conditions(tmaxfrac, **test_values)
validate_conditions(self, tmaxfrac, test_values) ==
    validate_conditions_from(self, tmaxfrac, test_values, 1)

\* DeviceRules.get_parameter_limits(tmaxfrac)
get_parameter_limits(self, tmaxfrac) ==
    [i \in 1..Len(self.parameters) |->
        <<self.parameters[i][1],
          [value |-> get_value_at_tmaxfrac(self.parameters[i][2], tmaxfrac),
           unit |-> self.parameters[i][2].unit,
           severity |-> self.parameters[i][2].severity,
           type |-> self.parameters[i][2].param_type,
           no_limit |-> is_no_limit(self.parameters[i][2], tmaxfrac)]>>]

\* {'error': f'Device {device_key} not found'}
NotFound(device_key) == [error |-> <<"Device ", device_key, " not found">>]

\* A seeded fault: an unknown device is answered as a device without rules.
check_soa_compliance_unknown_passes(self, device_key, tmaxfrac, test_values) ==
    IF ~DictHas(self.devices, device_key)
    THEN [device |-> device_key, tmaxfrac |-> tmaxfrac,
          test_values |-> test_values, violations |-> <<>>,
          compliant |-> TRUE, limits |-> <<>>]
    ELSE [device |-> device_key, tmaxfrac |-> tmaxfrac,
          test_values |-> test_values,
          violations |-> validate_conditions(DictGet(self.devices, device_key),
                                             tmaxfrac, test_values),
          compliant |-> Len(validate_conditions(DictGet(self.devices, device_key),
                                                tmaxfrac, test_values)) = 0,
          limits |-> get_parameter_limits(DictGet(self.devices, device_key),
                                          tmaxfrac)]

\* A seeded fault: the verdict is taken from the limits, not the violations.
check_soa_compliance_verdict(self, device_key, tmaxfrac, test_values) ==
    IF ~DictHas(self.devices, device_key) THEN NotFound(device_key)
    ELSE [device |-> device_key, tmaxfrac |-> tmaxfrac,
          test_values |-> test_values,
          violations |-> validate_conditions(DictGet(self.devices, device_key),
                                             tmaxfrac, test_values),
          compliant |-> Len(get_parameter_limits(
                                DictGet(self.devices, device_key), tmaxfrac)) # 0,
          limits |-> get_parameter_limits(DictGet(self.devices, device_key),
                                          tmaxfrac)]

\* SOARulesEngine.check_soa_compliance(device_key, tmaxfrac, **test_values)
check_soa_compliance(self, device_key, tmaxfrac, test_values) ==
    IF ~DictHas(self.devices, device_key) THEN NotFound(device_key)
    ELSE The({[device |-> device_key,
               tmaxfrac |-> tmaxfrac,
               test_values |-> test_values,
               violations |-> violations,
               compliant |-> Len(violations) = 0,
               limits |-> get_parameter_limits(DictGet(self.devices, device_key),
                                               tmaxfrac)] :
              violations \in {validate_conditions(
                                DictGet(self.devices, device_key),
                                tmaxfrac, test_values)}})

S_tmaxfrac == <<"t", "m", "a", "x", "f", "r", "a", "c">>

\* {k: v for k, v in scenario.items() if k != 'tmaxfrac'}
WithoutTmaxfrac(scenario) == SelectSeq(scenario, LAMBDA e : e[1] # S_tmaxfrac)

\* A seeded fault: scenarios are numbered from 1.
WithScenarioId_from_one(res, i) ==
    [k \in DOMAIN res \cup {"scenario_id"} |->
        IF k = "scenario_id" THEN i + 1 ELSE res[k]]

\* result['scenario_id'] = i
WithScenarioId(res, i) ==
    [k \in DOMAIN res \cup {"scenario_id"} |->
        IF k = "scenario_id" THEN i ELSE res[k]]

\* The results of the loop of generate_validation_report: the i-th scenario
\* (from 0, as enumerate counts) gives the i-th result.
report_results(self, device_key, test_scenarios) ==
    [j \in 1..Len(test_scenarios) |->
        WithScenarioId(
            check_soa_compliance(self, device_key,
                                 IF DictHas(test_scenarios[j], S_tmaxfrac)
                                 THEN DictGet(test_scenarios[j], S_tmaxfrac)
                                 ELSE 100,
                                 WithoutTmaxfrac(test_scenarios[j])),
            j - 1)]

\* the tallies the loop keeps: each result adds one to passed or to failed
report_summary(results, n) ==
    [total_scenarios |-> n,
     passed |-> Cardinality({j \in 1..Len(results) : results[j].compliant}),
     failed |-> Cardinality({j \in 1..Len(results) : ~results[j].compliant})]

\* SOARulesEngine.generate_validation_report(device_key, test_scenarios)
generate_validation_report(self, device_key, test_scenarios) ==
    IF ~DictHas(self.devices, device_key) THEN NotFound(device_key)
    ELSE The({[device |-> device_key,
               summary |-> report_summary(results, Len(test_scenarios)),
               results |-> results] :
              results \in {report_results(self, device_key, test_scenarios)}})

--------------------------------------------------------------------------
(* Inputs of the compliance queries: registries that add_device and       *)
(* load_from_json build, observations and scenarios                       *)

\* the most scenarios in a generated report request
MaxScenarios == 2

N_unknown == <<"i", "d", "s", "_", "p", "e", "a", "k">>

\* a parameter whose thresholds are text
P_text == SOAParameter(N_test_param, "low", "general", "", T_text, <<>>, "")
D_text ==
    DeviceRules("test_device", "test_sub", <<100, 10, 0>>,
                <<<<N_test_param, P_text>>, <<N_vhigh_ds_on, P_vhigh_ds_on>>>>, <<>>)

\* an engine after the add_device calls of `items`, in order
RECURSIVE EngineWith(_, _)
EngineWith(items, i) ==
    IF i = 0 THEN NewEngine
    ELSE [devices |-> add_device(EngineWith(items, i - 1).devices,
                                 items[i][1], items[i][2]),
          global_config |-> NewEngine.global_config]

\* a document whose parameters have no tables
Doc_no_values ==
    [soa_rules |-> [devices |-> <<<<"nmos_core", DD_no_values>>,
                                  <<"test_device", DD_full>>>>]]

Registries ==
    {NewEngine,
     EngineWith(<<<<"nmos_core", D_mos>>>>, 1),
     EngineWith(<<<<"nmos_core", D_mos>>, <<"test_device", D_test>>>>, 2),
     EngineWith(<<<<"test_device", D_alias>>, <<"nmos_core", D_diode>>>>, 2),
     EngineWith(<<<<"nmos_core", D_text>>, <<"test_device", D_mos>>>>, 2),
     load_from_json(NewEngine, Doc_no_values).self}

QueryKeys == DeviceKeys \cup {"test_mos"}

QueryLevels == {0, 10, 50, 100}

\* **test_values: observed values by parameter name
Observations ==
    {<<>>,
     <<<<N_vhigh_ds_on, 1500>>>>,
     <<<<N_vhigh_ds_on, 2000>>>>,
     <<<<N_vhigh_ds_on, 1700>>, <<N_vlow_gc, -1000>>>>,
     <<<<N_vlow_gc, -100>>, <<N_vhigh_ds_on, 1650>>>>,
     <<<<N_vlow_gc, -1000>>, <<N_unknown, 2500>>, <<N_vhigh_ds_on, 2000>>>>,
     <<<<N_unknown, 2500>>>>,
     <<<<N_alias, 1900>>>>,
     <<<<N_imax, 1000>>, <<N_tmin, 0>>>>,
     <<<<N_test_param, 999000>>>>,
     <<<<N_test_param, 1200>>, <<N_vhigh_ds_on, 1900>>>>}

\* scenarios: with 'tmaxfrac' first, later, or left out
Scenarios ==
    {<<<<S_tmaxfrac, 100>>, <<N_vhigh_ds_on, 1500>>, <<N_unknown, 1700>>>>,
     <<<<S_tmaxfrac, 100>>, <<N_vhigh_ds_on, 2000>>, <<N_unknown, 1700>>>>,
     <<<<N_vhigh_ds_on, 1700>>, <<S_tmaxfrac, 0>>, <<N_vlow_gc, -1000>>>>,
     <<<<N_vhigh_ds_on, 1700>>, <<N_test_param, 1200>>>>,
     <<<<S_tmaxfrac, 10>>>>}

RECURSIVE ScenarioLists(_)
\* every sequence of n scenarios
ScenarioLists(n) ==
    IF n = 0 THEN {<<>>}
    ELSE {Append(l, s) : l \in ScenarioLists(n - 1), s \in Scenarios}

--------------------------------------------------------------------------
(* The compliance queries do not assign to the engine: a registry and the *)
(* arguments of one call are drawn first, then the call is made.          *)

InitCompliance ==
    \E r \in Registries, k \in QueryKeys :
        /\ devices = r.devices
        /\ global_config = r.global_config
        /\ \/ \E t \in QueryLevels, o \in Observations :
                result = [op |-> "args", device_key |-> k, tmaxfrac |-> t,
                          test_values |-> o]
           \/ \E n \in 0..MaxScenarios : \E l \in ScenarioLists(n) :
                result = [op |-> "scenarios", device_key |-> k,
                          test_scenarios |-> l]

\* devices[device_key].validate_conditions(tmaxfrac, **test_values)
ValidateConditions ==
    /\ result.op = "args"
    /\ DictHas(devices, result.device_key)
    /\ result' = [op |-> "validate_conditions",
                  self |-> DictGet(devices, result.device_key),
                  tmaxfrac |-> result.tmaxfrac,
                  test_values |-> result.test_values,
                  ret |-> validate_conditions(DictGet(devices, result.device_key),
                                              result.tmaxfrac, result.test_values)]
    /\ UNCHANGED engines

CheckSoaCompliance ==
    /\ result.op = "args"
    /\ result' = [op |-> "check_soa_compliance",
                  device_key |-> result.device_key,
                  tmaxfrac |-> result.tmaxfrac,
                  test_values |-> result.test_values,
                  ret |-> check_soa_compliance(Self, result.device_key,
                                               result.tmaxfrac, result.test_values)]
    /\ UNCHANGED engines

GenerateValidationReport ==
    /\ result.op = "scenarios"
    /\ result' = [op |-> "generate_validation_report",
                  device_key |-> result.device_key,
                  test_scenarios |-> result.test_scenarios,
                  ret |-> generate_validation_report(Self, result.device_key,
                                                     result.test_scenarios)]
    /\ UNCHANGED engines

NextCompliance ==
    ValidateConditions \/ CheckSoaCompliance \/ GenerateValidationReport

SpecCompliance == InitCompliance /\ [][NextCompliance]_vars

--------------------------------------------------------------------------
(* Claims about the compliance queries *)

\* C12: check_soa_compliance with a device key that is not in the registry
\* ends in the not-found outcome, with no violations list and no compliant
\* verdict, and the step leaves devices and global_config unchanged.
C12_UnknownDevice ==
    [][(result'.op = "check_soa_compliance"
            /\ ~DictHas(devices, result'.device_key))
        => /\ UNCHANGED engines
           /\ result'.ret = NotFound(result'.device_key)
           /\ "violations" \notin DOMAIN result'.ret
           /\ "compliant" \notin DOMAIN result'.ret]_vars

\* a registry with two devices is asked for a third
C12_Witness ==
    /\ result.op = "check_soa_compliance"
    /\ result.device_key = "test_mos"
    /\ Len(devices) = 2
    /\ DOMAIN result.ret = {"error"}

\* C13: for a device key in the registry, check_soa_compliance returns the
\* device's validate_conditions(t, observations) as violations, compliant
\* iff that list is empty, and the three arguments as device, tmaxfrac and
\* test_values.
C13_Delegates ==
    (result.op = "check_soa_compliance" /\ DictHas(devices, result.device_key))
        => /\ result.ret.violations
                = validate_conditions(DictGet(devices, result.device_key),
                                      result.tmaxfrac, result.test_values)
           /\ result.ret.compliant <=> (result.ret.violations = <<>>)
           /\ result.ret.device = result.device_key
           /\ result.ret.tmaxfrac = result.tmaxfrac
           /\ result.ret.test_values = result.test_values

\* a check with a violation and a check without
C13_Witness ==
    /\ result.op = "check_soa_compliance"
    /\ DictHas(devices, result.device_key)
    /\ DictGet(devices, result.device_key) = D_mos
    /\ result.test_values = <<<<N_vhigh_ds_on, 2000>>>>
    /\ result.tmaxfrac = 100
    /\ Len(result.ret.violations) = 1
    /\ ~result.ret.compliant

\* the keys of the rule set that are observed and whose value fails
Failing(self, tmaxfrac, test_values) ==
    {n \in KeySet(self.parameters) \cap KeySet(test_values) :
        ~validate_value(DictGet(self.parameters, n), DictGet(test_values, n),
                        tmaxfrac)}

\* C14: validate_conditions returns exactly one violation for each
\* parameter of the set that is observed and fails validate_value, and
\* nothing else; the violation names the parameter, the observed value,
\* the resolved limit and the tmaxfrac.
C14_ExactViolations ==
    result.op = "validate_conditions" =>
        /\ Len(result.ret)
            = Cardinality(Failing(result.self, result.tmaxfrac, result.test_values))
        /\ \A n \in Failing(result.self, result.tmaxfrac, result.test_values) :
            \E i \in 1..Len(result.ret) :
                /\ result.ret[i][1] = n
                /\ result.ret[i][3] = PyStr(Num(DictGet(result.test_values, n)))
                /\ result.ret[i][7]
                    = PyStr(get_value_at_tmaxfrac(DictGet(result.self.parameters, n),
                                                  result.tmaxfrac))
                /\ result.ret[i][11] = PyStr(Num(result.tmaxfrac))
        /\ \A i \in 1..Len(result.ret) :
                result.ret[i][1]
                    \in Failing(result.self, result.tmaxfrac, result.test_values)

\* two parameters fail, and a name that is not in the set is observed
C14_Witness ==
    /\ result.op = "validate_conditions"
    /\ result.self = D_mos
    /\ result.tmaxfrac = 100
    /\ result.test_values
        = <<<<N_vlow_gc, -1000>>, <<N_unknown, 2500>>, <<N_vhigh_ds_on, 2000>>>>
    /\ Len(result.ret) = 2
    /\ result.ret[1][1] = N_vhigh_ds_on

\* the report of N scenarios: N results in input order, the result at
\* position i (from 0) being check_soa_compliance of scenario i with
\* scenario_id i, and the tallies
ReportOfN ==
    /\ "results" \in DOMAIN result.ret
    /\ Len(result.ret.results) = Len(result.test_scenarios)
    /\ \A j \in 1..Len(result.test_scenarios) :
        /\ result.ret.results[j].scenario_id = j - 1
        /\ [k \in DOMAIN result.ret.results[j] \ {"scenario_id"} |->
                result.ret.results[j][k]]
            = check_soa_compliance(
                Self, result.device_key,
                IF DictHas(result.test_scenarios[j], S_tmaxfrac)
                THEN DictGet(result.test_scenarios[j], S_tmaxfrac) ELSE 100,
                SelectSeq(result.test_scenarios[j], LAMBDA e : e[1] # S_tmaxfrac))
    /\ result.ret.summary.total_scenarios = Len(result.test_scenarios)
    /\ result.ret.summary.passed + result.ret.summary.failed
            = Len(result.test_scenarios)
    /\ result.ret.summary.passed
            = Cardinality({j \in 1..Len(result.ret.results) :
                                result.ret.results[j].compliant})

\* C15 as stated: every generate_validation_report over N scenarios returns
\* N results in input order with passed + failed == N == total_scenarios.
C15_Original == result.op = "generate_validation_report" => ReportOfN

\* C15 (amended): for a device key in the registry the report has N results
\* in input order, each the check of its scenario with its position as
\* scenario_id, and passed + failed == N == total_scenarios with passed the
\* number of compliant results; for a key that is not in the registry the
\* call returns the not-found outcome, without results or summary.
C15_Report ==
    result.op = "generate_validation_report" =>
        IF DictHas(devices, result.device_key) THEN ReportOfN
        ELSE result.ret = NotFound(result.device_key)

\* two scenarios, the first fails and the second passes
C15_Witness ==
    /\ result.op = "generate_validation_report"
    /\ DictHas(devices, result.device_key)
    /\ Len(result.test_scenarios) = 2
    /\ ~result.ret.results[1].compliant
    /\ result.ret.results[2].compliant
    /\ result.ret.summary.passed = 1
    /\ result.ret.summary.failed = 1

--------------------------------------------------------------------------
(* Claims about thresholds that cannot be compared *)

\* C16: a query against a parameter whose table is empty ends in a lookup
\* error: get_value_at_tmaxfrac does not return (None is a return), and
\* validate_value does not answer with a pass.
C16_EmptyTableFails ==
    (result.op \in {"get_value_at_tmaxfrac", "validate_value"}
        /\ result.self.values = <<>>)
    => /\ result.op = "get_value_at_tmaxfrac" => result.ret # None
       /\ result.op = "validate_value" => result.ret # TRUE

\* the resolved threshold of the last query is text that is neither the
\* sentinel nor a number
Unvalidatable ==
    /\ get_value_at_tmaxfrac(result.self, result.tmaxfrac).kind = "str"
    /\ ~is_no_limit(result.self, result.tmaxfrac)
    /\ ~PyFloat(get_value_at_tmaxfrac(result.self, result.tmaxfrac)).ok

\* C17: validate_value against a threshold that is neither numeric nor the
\* sentinel answers with something other than the True of an ordinary
\* pass (and other than the False of a failure), so that the caller can
\* tell that the value was not validated.
C17_FailOpenFlagged ==
    (result.op = "validate_value" /\ Unvalidatable)
        => (result.ret # TRUE /\ result.ret # FALSE)

--------------------------------------------------------------------------
(* corrected_tmaxfrac_analysis.py: TransientAwareParameter and            *)
(* TransientSOAEngine                                                     *)

TransientAwareParameter(name, severity, param_type, unit, transient_constraints, description) ==
    [name |-> name, severity |-> severity, param_type |-> param_type,
     unit |-> unit, transient_constraints |-> transient_constraints,
     description |-> description]

\* max(end_time for _, _, end_time in voltage_profile)
MaxEndTime(voltage_profile) ==
    CHOOSE m \in {voltage_profile[i][3] : i \in 1..Len(voltage_profile)} :
        \A i \in 1..Len(voltage_profile) : voltage_profile[i][3] <= m

RECURSIVE constraint_violations(_, _, _, _)
\* The inner loop of validate_transient_profile for one sample, from
\* constraint j on: f"{self.name}: {violation}" for each violation that is
\* not None.
constraint_violations(self, sample, total_time, j) ==
    IF j > Len(self.transient_constraints) THEN <<>>
    ELSE The({IF violation # None THEN <<<<self.name, ": ", violation>>>>
              ELSE <<>> :
              violation \in {validate_transient(self.transient_constraints[j],
                                                sample[1], sample[3] - sample[2],
                                                total_time)}})
         \o constraint_violations(self, sample, total_time, j + 1)

RECURSIVE sample_violations(_, _, _, _)
\* the outer loop of validate_transient_profile, from sample i on
sample_violations(self, voltage_profile, total_time, i) ==
    IF i > Len(voltage_profile) THEN <<>>
    ELSE constraint_violations(self, voltage_profile[i], total_time, 1)
         \o sample_violations(self, voltage_profile, total_time, i + 1)

RECURSIVE ReachTime(_, _, _)
\* the time the first i samples spend at voltage v or above
ReachTime(voltage_profile, v, i) ==
    IF i = 0 THEN 0
    ELSE ReachTime(voltage_profile, v, i - 1)
         + (IF voltage_profile[i][1] >= v
            THEN voltage_profile[i][3] - voltage_profile[i][2] ELSE 0)

\* A seeded fault: a sample is checked with the time the whole profile
\* spends at its voltage or above.
validate_transient_profile_summed(self, voltage_profile) ==
    IF voltage_profile = <<>> THEN <<>>
    ELSE sample_violations(
            self,
            [i \in 1..Len(voltage_profile) |->
                <<voltage_profile[i][1], 0,
                  ReachTime(voltage_profile, voltage_profile[i][1],
                            Len(voltage_profile))>>],
            MaxEndTime(voltage_profile), 1)

\* TransientAwareParameter.validate_transient_profile(voltage_profile)
validate_transient_profile(self, voltage_profile) ==
    IF voltage_profile = <<>> THEN <<>>
    ELSE sample_violations(self, voltage_profile, MaxEndTime(voltage_profile), 1)

RECURSIVE all_violations_prepended(_, _, _)
\* A seeded fault: a parameter's violations are put in front of the list.
all_violations_prepended(device, parameter_profiles, i) ==
    IF i > Len(parameter_profiles) THEN <<>>
    ELSE all_violations_prepended(device, parameter_profiles, i + 1)
         \o (IF DictHas(device.parameters, parameter_profiles[i][1])
             THEN validate_transient_profile(
                    DictGet(device.parameters, parameter_profiles[i][1]),
                    parameter_profiles[i][2])
             ELSE <<>>)

RECURSIVE all_violations_unknown_reported(_, _, _)
\* A seeded fault: a profile for a name the device does not have is
\* reported.
all_violations_unknown_reported(device, parameter_profiles, i) ==
    IF i > Len(parameter_profiles) THEN <<>>
    ELSE (IF DictHas(device.parameters, parameter_profiles[i][1])
          THEN validate_transient_profile(
                    DictGet(device.parameters, parameter_profiles[i][1]),
                    parameter_profiles[i][2])
          ELSE <<<<parameter_profiles[i][1], ": ", None>>>>)
         \o all_violations_unknown_reported(device, parameter_profiles, i + 1)

RECURSIVE all_violations_from(_, _, _)
\* The loop of validate_transient_simulation over parameter_profiles.items()
\* from item i on: what it adds to all_violations.
all_violations_from(device, parameter_profiles, i) ==
    IF i > Len(parameter_profiles) THEN <<>>
    ELSE (IF DictHas(device.parameters, parameter_profiles[i][1])
          THEN validate_transient_profile(
                    DictGet(device.parameters, parameter_profiles[i][1]),
                    parameter_profiles[i][2])
          ELSE <<>>)
         \o all_violations_from(device, parameter_profiles, i + 1)

\* TransientSOAEngine.validate_transient_simulation(device_key,
\* parameter_profiles)
validate_transient_simulation(self, device_key, parameter_profiles) ==
    IF ~DictHas(self.devices, device_key) THEN NotFound(device_key)
    ELSE The({[device |-> device_key,
               violations |-> all_violations,
               compliant |-> Len(all_violations) = 0,
               total_violations |-> Len(all_violations)] :
              all_violations \in {all_violations_from(
                                    DictGet(self.devices, device_key),
                                    parameter_profiles, 1)}})

--------------------------------------------------------------------------
(* Inputs of the transient simulation check *)

\* the most profiles in a generated profile set
MaxProfiles == 2

N_vhigh_ds_off ==
    <<"v", "h", "i", "g", "h", "_", "d", "s", "_", "o", "f", "f">>

\* example_transient_validation: 1.65 V for 10 %, 1.71 V for 1 %, 1.838 V
\* never
TP_vhigh_ds_on ==
    TransientAwareParameter(N_vhigh_ds_on, "high", "voltage", "V",
                            <<TransientLimit(Num(1650), 100),
                              TransientLimit(Num(1710), 10),
                              TransientLimit(Num(1838), 0)>>, "")
TP_vhigh_ds_off ==
    TransientAwareParameter(N_vhigh_ds_off, "high", "voltage", "V",
                            <<TransientLimit(Str(S_no_limit), 0),
                              TransientLimit(Num(1710), 10)>>, "")

TD_mos ==
    [parameters |-> <<<<N_vhigh_ds_on, TP_vhigh_ds_on>>,
                      <<N_vhigh_ds_off, TP_vhigh_ds_off>>>>]
TD_single == [parameters |-> <<<<N_vhigh_ds_off, TP_vhigh_ds_off>>>>]

\* the devices dict of a TransientSOAEngine
TransientRegistries ==
    {<<>>,
     <<<<"nmos_core", TD_mos>>>>,
     <<<<"test_device", TD_single>>, <<"nmos_core", TD_mos>>>>}

\* profiles of (voltage, start_time, end_time), times in 0.1 us: the
\* example's, one with three violations, one with one, one whose sample
\* lasts exactly the 1 % allowed, one that reaches 1.75 V twice for 1 %
\* each, and the empty one
VoltageProfiles ==
    {<<<<1200, 0, 500>>, <<1700, 500, 550>>, <<1000, 550, 1000>>>>,
     <<<<1850, 0, 20>>, <<1700, 20, 1000>>>>,
     <<<<1750, 0, 11>>, <<1000, 11, 1000>>>>,
     <<<<1750, 0, 10>>, <<1000, 10, 1000>>>>,
     <<<<1750, 0, 10>>, <<1000, 10, 500>>, <<1750, 500, 510>>,
       <<1000, 510, 1000>>>>,
     <<>>}

ProfileNames == {N_vhigh_ds_on, N_vhigh_ds_off, N_unknown}

RECURSIVE ProfileSets(_)
\* every parameter_profiles dict of n entries
ProfileSets(n) ==
    IF n = 0 THEN {<<>>}
    ELSE {Append(d, <<name, p>>) :
            d \in ProfileSets(n - 1),
            name \in ProfileNames, p \in VoltageProfiles}

ParameterProfiles ==
    {d \in UNION {ProfileSets(n) : n \in 0..MaxProfiles} :
        \A i, j \in 1..Len(d) : i # j => d[i][1] # d[j][1]}

--------------------------------------------------------------------------
(* The simulation check does not assign to the engine: the devices of a   *)
(* TransientSOAEngine (it has no global_config) and the arguments of one  *)
(* call are drawn first, then the call is made.                           *)

InitSimulation ==
    /\ devices \in TransientRegistries
    /\ global_config = EmptyObject
    /\ \E k \in QueryKeys, pp \in ParameterProfiles :
            result = [op |-> "args", device_key |-> k, parameter_profiles |-> pp]

\* devices[device_key].parameters[param_name].validate_transient_profile(
\* voltage_profile), for the first profile supplied
ValidateTransientProfile ==
    /\ result.op = "args"
    /\ DictHas(devices, result.device_key)
    /\ result.parameter_profiles # <<>>
    /\ DictHas(DictGet(devices, result.device_key).parameters,
               result.parameter_profiles[1][1])
    /\ result' = [op |-> "validate_transient_profile",
                  self |-> DictGet(DictGet(devices, result.device_key).parameters,
                                   result.parameter_profiles[1][1]),
                  voltage_profile |-> result.parameter_profiles[1][2],
                  ret |-> validate_transient_profile(
                            DictGet(DictGet(devices, result.device_key).parameters,
                                    result.parameter_profiles[1][1]),
                            result.parameter_profiles[1][2])]
    /\ UNCHANGED engines

ValidateTransientSimulation ==
    /\ result.op = "args"
    /\ result' = [op |-> "validate_transient_simulation",
                  device_key |-> result.device_key,
                  parameter_profiles |-> result.parameter_profiles,
                  ret |-> validate_transient_simulation(
                            Self, result.device_key, result.parameter_profiles)]
    /\ UNCHANGED engines

NextSimulation == ValidateTransientProfile \/ ValidateTransientSimulation

SpecSimulation == InitSimulation /\ [][NextSimulation]_vars

--------------------------------------------------------------------------
(* Claims about the transient simulation check *)

RECURSIVE Flatten(_)
\* the concatenation of a sequence of sequences
Flatten(seqs) == IF seqs = <<>> THEN <<>> ELSE Head(seqs) \o Flatten(Tail(seqs))

\* for each profile supplied, in the order supplied, the violations
\* validate_transient_profile gives for it (none for a name the device
\* does not have)
PerParameter ==
    [i \in 1..Len(result.parameter_profiles) |->
        IF DictHas(DictGet(devices, result.device_key).parameters,
                   result.parameter_profiles[i][1])
        THEN validate_transient_profile(
                DictGet(DictGet(devices, result.device_key).parameters,
                        result.parameter_profiles[i][1]),
                result.parameter_profiles[i][2])
        ELSE <<>>]

\* C18: validate_transient_simulation returns the per-parameter violation
\* lists concatenated in the order the profiles are supplied, each list in
\* the order validate_transient_profile gave it; compliant iff the list is
\* empty; total_violations is its length.
C18_Concatenation ==
    (result.op = "validate_transient_simulation"
        /\ DictHas(devices, result.device_key))
    => /\ result.ret.violations = Flatten(PerParameter)
       /\ result.ret.compliant <=> (result.ret.violations = <<>>)
       /\ result.ret.total_violations = Len(result.ret.violations)

\* two parameters with a violation each, the second of the device first
C18_Witness ==
    /\ result.op = "validate_transient_simulation"
    /\ DictHas(devices, result.device_key)
    /\ Len(result.parameter_profiles) = 2
    /\ result.parameter_profiles[1][1] = N_vhigh_ds_off
    /\ result.ret.total_violations = 2
    /\ result.ret.violations[1][1] = N_vhigh_ds_off
    /\ result.ret.violations[2][1] = N_vhigh_ds_on
    /\ ~result.ret.compliant

\* the profiles supplied for names the device has
KnownProfiles ==
    SelectSeq(result.parameter_profiles,
              LAMBDA e : DictHas(DictGet(devices, result.device_key).parameters,
                                 e[1]))

\* C19: with a device key that is not in the registry the simulation check
\* ends in the not-found outcome; with a known device a profile for a name
\* the device does not have adds no violation and no error, and the result
\* is that of the call without such profiles.
C19_UnknownSkipped ==
    result.op = "validate_transient_simulation" =>
        IF ~DictHas(devices, result.device_key)
        THEN result.ret = NotFound(result.device_key)
        ELSE /\ "error" \notin DOMAIN result.ret
             /\ result.ret = validate_transient_simulation(
                                Self, result.device_key, KnownProfiles)
             /\ \A i \in 1..Len(result.ret.violations) :
                    DictHas(DictGet(devices, result.device_key).parameters,
                            result.ret.violations[i][1])

\* a violating profile is supplied under a name the device does not have,
\* next to a compliant one
C19_Witness ==
    /\ result.op = "validate_transient_simulation"
    /\ DictHas(devices, result.device_key)
    /\ Len(result.parameter_profiles) = 2
    /\ result.parameter_profiles[1]
        = <<N_unknown, <<<<1850, 0, 20>>, <<1700, 20, 1000>>>>>>
    /\ result.parameter_profiles[2][1] = N_vhigh_ds_on
    /\ result.ret.compliant

--------------------------------------------------------------------------
(* Claims about add_device *)

\* C20: after add_device(k, r) the registry maps k to exactly r, whatever
\* was stored under k before; every other key keeps its rule set and the
\* global configuration is unchanged.
C20_Overwrite ==
    [][result'.op = "add_device"
        => /\ DictHas(devices', result'.device_key)
           /\ DictGet(devices', result'.device_key) = result'.rules
           /\ KeySet(devices') = KeySet(devices) \cup {result'.device_key}
           /\ \A k \in KeySet(devices) \ {result'.device_key} :
                    DictGet(devices', k) = DictGet(devices, k)
           /\ global_config' = global_config]_vars

\* a rule set with two parameters is replaced by one with another parameter
\* while a second device is in the registry
C20_Witness ==
    /\ result.op = "add_device"
    /\ DictHas(result.before, result.device_key)
    /\ DictGet(result.before, result.device_key) = D_mos
    /\ result.rules = D_test
    /\ DictGet(devices, result.device_key) = D_test
    /\ Len(devices) = 2

--------------------------------------------------------------------------
(* Read-only callers on a populated registry: one caller runs             *)
(* generate_validation_report a scenario at a time, and other callers'    *)
(* check_soa_compliance and export_to_json calls come in between.         *)

\* the most calls begun in a behaviour
MaxReaderCalls == 3

\* generate_validation_report before its loop: results = [], the summary
\* with nothing counted, and the loop at scenario 0
report_start(device_key, test_scenarios) ==
    [active |-> TRUE, device_key |-> device_key,
     test_scenarios |-> test_scenarios, i |-> 0, results |-> <<>>,
     summary |-> [total_scenarios |-> Len(test_scenarios), passed |-> 0,
                  failed |-> 0]]

\* A seeded fault: a compliant result is counted and not appended.
report_step_drops(self, rep) ==
    The({[rep EXCEPT !.i = rep.i + 1,
                     !.results = IF res.compliant THEN rep.results
                                 ELSE Append(rep.results, res),
                     !.summary.passed = IF res.compliant THEN @ + 1 ELSE @,
                     !.summary.failed = IF res.compliant THEN @ ELSE @ + 1] :
         res \in {WithScenarioId(
                    check_soa_compliance(
                        self, rep.device_key,
                        IF DictHas(rep.test_scenarios[rep.i + 1], S_tmaxfrac)
                        THEN DictGet(rep.test_scenarios[rep.i + 1], S_tmaxfrac)
                        ELSE 100,
                        WithoutTmaxfrac(rep.test_scenarios[rep.i + 1])),
                    rep.i)}})

\* one pass of the loop of generate_validation_report, for scenario rep.i
report_step(self, rep) ==
    The({[rep EXCEPT !.i = rep.i + 1,
                     !.results = Append(rep.results, res),
                     !.summary.passed = IF res.compliant THEN @ + 1 ELSE @,
                     !.summary.failed = IF res.compliant THEN @ ELSE @ + 1] :
         res \in {WithScenarioId(
                    check_soa_compliance(
                        self, rep.device_key,
                        IF DictHas(rep.test_scenarios[rep.i + 1], S_tmaxfrac)
                        THEN DictGet(rep.test_scenarios[rep.i + 1], S_tmaxfrac)
                        ELSE 100,
                        WithoutTmaxfrac(rep.test_scenarios[rep.i + 1])),
                    rep.i)}})

\* what generate_validation_report returns after its loop
report_return(rep) ==
    [device |-> rep.device_key, summary |-> rep.summary, results |-> rep.results]

\* no report is running
Idle == [active |-> FALSE]

\* the scenarios and checks of the readers: the demonstration's passing and
\* failing scenario
ReaderScenarios ==
    {<<<<S_tmaxfrac, 100>>, <<N_vhigh_ds_on, 1500>>, <<N_unknown, 1700>>>>,
     <<<<S_tmaxfrac, 100>>, <<N_vhigh_ds_on, 2000>>, <<N_unknown, 1700>>>>}

RECURSIVE ReaderScenarioLists(_)
ReaderScenarioLists(n) ==
    IF n = 0 THEN {<<>>}
    ELSE {Append(l, s) : l \in ReaderScenarioLists(n - 1), s \in ReaderScenarios}

ReaderObservations == {<<<<N_vhigh_ds_on, 2000>>>>, <<<<N_test_param, 1200>>>>}

InitReaders ==
    /\ \E r \in Registries \ {NewEngine} :
            /\ devices = r.devices
            /\ global_config = r.global_config
    /\ result = [op |-> "init", calls |-> 0, report |-> Idle]

\* generate_validation_report is called: it returns at once for a device
\* that is not in the registry, and enters its loop otherwise
StartReport ==
    /\ result.calls < MaxReaderCalls
    /\ ~result.report.active
    /\ \E k \in QueryKeys, n \in 0..MaxScenarios : \E l \in ReaderScenarioLists(n) :
        IF ~DictHas(devices, k)
        THEN result' = [op |-> "generate_validation_report", device_key |-> k,
                        test_scenarios |-> l, ret |-> NotFound(k),
                        calls |-> result.calls + 1, report |-> Idle]
        ELSE result' = [result EXCEPT !.calls = @ + 1,
                                      !.report = report_start(k, l)]
    /\ UNCHANGED engines

StepReport ==
    /\ result.report.active
    /\ result.report.i < Len(result.report.test_scenarios)
    /\ result' = [result EXCEPT !.report = report_step(Self, result.report)]
    /\ UNCHANGED engines

FinishReport ==
    /\ result.report.active
    /\ result.report.i = Len(result.report.test_scenarios)
    /\ result' = [op |-> "generate_validation_report",
                  device_key |-> result.report.device_key,
                  test_scenarios |-> result.report.test_scenarios,
                  ret |-> report_return(result.report),
                  calls |-> result.calls, report |-> Idle]
    /\ UNCHANGED engines

\* another caller's check_soa_compliance, at any point of the report
ReaderCheck ==
    /\ result.calls < MaxReaderCalls
    /\ \E k \in QueryKeys, t \in {0, 100}, o \in ReaderObservations :
        result' = [op |-> "check_soa_compliance", device_key |-> k,
                   tmaxfrac |-> t, test_values |-> o,
                   ret |-> check_soa_compliance(Self, k, t, o),
                   calls |-> result.calls + 1, report |-> result.report]
    /\ UNCHANGED engines

\* another caller's export_to_json, at any point of the report
ReaderExport ==
    /\ result.calls < MaxReaderCalls
    /\ result' = [op |-> "export_to_json", ret |-> export_to_json(Self),
                  calls |-> result.calls + 1, report |-> result.report]
    /\ UNCHANGED engines

NextReaders ==
    StartReport \/ StepReport \/ FinishReport \/ ReaderCheck \/ ReaderExport

SpecReaders == InitReaders /\ [][NextReaders]_vars

--------------------------------------------------------------------------
(* Claims about the samples of a profile *)

\* the constraints of the parameter of the last validate_transient_profile
\* call that have a numeric threshold and maxTimeFraction > 0
TimedConstraints ==
    {result.self.transient_constraints[j] :
        j \in {k \in 1..Len(result.self.transient_constraints) :
                /\ result.self.transient_constraints[k].voltage_limit.kind = "float"
                /\ result.self.transient_constraints[k].max_time_fraction > 0}}

\* the messages of the last call that report a time violation of c
TimeMessages(c) ==
    {k \in 1..Len(result.ret) :
        /\ result.ret[k][3].text = "Time violation"
        /\ result.ret[k][3].limit = c.voltage_limit.n
        /\ result.ret[k][3].fraction = c.max_time_fraction}

\* the samples of the last call with v >= L and end - start > f * T, T the
\* greatest end of the profile
Exceeding(c) ==
    {i \in 1..Len(result.voltage_profile) :
        /\ result.voltage_profile[i][1] >= c.voltage_limit.n
        /\ (result.voltage_profile[i][3] - result.voltage_profile[i][2]) * Scale
            > c.max_time_fraction * MaxEndTime(result.voltage_profile)}

\* C22: for a constraint with numeric threshold L and maxTimeFraction
\* f > 0, a sample (v, start, end) yields a violation iff v >= L and
\* end - start > f * T, T being the greatest end of the profile: the
\* constraint's messages are those of the samples that exceed, one each.
C22_SampleRule ==
    result.op = "validate_transient_profile" =>
        \A c \in TimedConstraints :
            /\ Cardinality(TimeMessages(c)) = Cardinality(Exceeding(c))
            /\ \A k \in TimeMessages(c) : \E i \in Exceeding(c) :
                    result.ret[k][3].duration
                        = result.voltage_profile[i][3] - result.voltage_profile[i][2]

\* 1.75 V for exactly the 1 % that the 1.71 V constraint allows, and 1.0 V
\* for the rest of the profile: no violation
C22_Witness ==
    /\ result.op = "validate_transient_profile"
    /\ result.self = TP_vhigh_ds_on
    /\ result.voltage_profile = <<<<1750, 0, 10>>, <<1000, 10, 1000>>>>
    /\ result.ret = <<>>

\* C23: the check is per sample: when each sample that reaches a threshold
\* lasts at most maxTimeFraction * totalTime, the constraint is not
\* violated, whatever the samples' combined duration.
C23_PerSample ==
    result.op = "validate_transient_profile" =>
        \A c \in TimedConstraints :
            (\A i \in 1..Len(result.voltage_profile) :
                result.voltage_profile[i][1] >= c.voltage_limit.n
                    => (result.voltage_profile[i][3] - result.voltage_profile[i][2])
                            * Scale
                        <= c.max_time_fraction * MaxEndTime(result.voltage_profile))
            => TimeMessages(c) = {}

\* two samples reach 1.71 V for 1 % of the profile each, 2 % together, with
\* 1 % allowed
C23_Witness ==
    /\ result.op = "validate_transient_profile"
    /\ result.self = TP_vhigh_ds_on
    /\ Len(result.voltage_profile) = 4
    /\ ReachTime(result.voltage_profile, 1710, 4) * Scale
        > 10 * MaxEndTime(result.voltage_profile)
    /\ result.ret = <<>>

--------------------------------------------------------------------------
(* Further claims about SOAParameter *)

\* the distance of table entry i from the requested tmaxfrac
Distance(i) == Abs(result.self.values[i][1] - result.tmaxfrac)

\* C24: when the requested tmaxfrac is not a key and several keys are at
\* the same least distance from it, get_value_at_tmaxfrac returns the entry
\* of the one the table lists first.
C24_FirstOfTies ==
    (/\ result.op = "get_value_at_tmaxfrac"
     /\ \A i \in 1..Len(result.self.values) :
            result.self.values[i][1] # result.tmaxfrac
     /\ \E i, j \in 1..Len(result.self.values) :
            /\ i # j
            /\ Distance(i) = Distance(j)
            /\ \A k \in 1..Len(result.self.values) : Distance(i) <= Distance(k))
    => \E i \in 1..Len(result.self.values) :
            /\ result.ret = result.self.values[i][2]
            /\ \A k \in 1..Len(result.self.values) : Distance(i) <= Distance(k)
            /\ \A k \in 1..(i - 1) : Distance(k) > Distance(i)

\* the keys 0.1 and 0.0 are both 0.05 from the request, 0.0 listed first
C24_Witness ==
    /\ result.op = "get_value_at_tmaxfrac"
    /\ result.self.values = <<<<0, Num(6000)>>, <<100, Num(5000)>>>>
    /\ result.tmaxfrac = 50
    /\ result.ret = Num(6000)

--------------------------------------------------------------------------
(* Further claims about load_from_json *)

\* the device keys the last loaded document names
DocumentKeys ==
    IF "soa_rules" \in DOMAIN result.json_data
       /\ "devices" \in DOMAIN result.json_data["soa_rules"]
    THEN KeySet(result.json_data["soa_rules"]["devices"])
    ELSE {}

\* C25: after a successful load_from_json every parameter of every device
\* the load placed in the registry has a non-empty tmaxfrac table whose
\* keys lie in [0, 1].
C25_LoadedTables ==
    (result.op = "load_from_json" /\ result.raised = "None") =>
        \A k \in DocumentKeys :
            \A i \in 1..Len(DictGet(devices, k).parameters) :
                /\ DictGet(devices, k).parameters[i][2].values # <<>>
                /\ \A e \in DictItems(DictGet(devices, k).parameters[i][2].values) :
                        0 <= e[1] /\ e[1] <= Scale

--------------------------------------------------------------------------
(* Claims about the tags of a parameter *)

\* the parameter with another severity and kind
Retagged(param, tag) == [param EXCEPT !.severity = tag[1], !.param_type = tag[2]]

\* the device with the parameters retagged, parameter i with tags[i]
RetaggedDevice(device_rules, tags) ==
    [device_rules EXCEPT !.parameters =
        [i \in 1..Len(device_rules.parameters) |->
            <<device_rules.parameters[i][1],
              Retagged(device_rules.parameters[i][2], tags[i])>>]]

\* C26: the outcome of validation does not depend on severity or kind: the
\* parameters of the checked device, given any other severity and kind,
\* return the same validate_value for the observed values, and the device
\* with any retagging of its parameters gets the same compliant flag and
\* the same number of violations from check_soa_compliance.
C26_TagsIgnored ==
    (result.op = "check_soa_compliance" /\ DictHas(devices, result.device_key))
    => LET device_rules == DictGet(devices, result.device_key)
       IN  /\ \A i \in 1..Len(device_rules.parameters) :
                \A tag \in Severity \X ParameterType :
                    \A j \in 1..Len(result.test_values) :
                        validate_value(Retagged(device_rules.parameters[i][2], tag),
                                       result.test_values[j][2], result.tmaxfrac)
                        = validate_value(device_rules.parameters[i][2],
                                         result.test_values[j][2], result.tmaxfrac)
           /\ \A tags \in [1..Len(device_rules.parameters)
                            -> Severity \X ParameterType] :
                \A r \in {check_soa_compliance(
                            [devices |-> DictSet(devices, result.device_key,
                                                 RetaggedDevice(device_rules, tags)),
                             global_config |-> global_config],
                            result.device_key, result.tmaxfrac,
                            result.test_values)} :
                    /\ r.compliant = result.ret.compliant
                    /\ Len(r.violations) = Len(result.ret.violations)

\* a device with a parameter of high and one of medium severity fails on
\* both
C26_Witness ==
    /\ result.op = "check_soa_compliance"
    /\ DictHas(devices, result.device_key)
    /\ DictGet(devices, result.device_key) = D_mos
    /\ Len(result.ret.violations) = 2
    /\ ~result.ret.compliant

--------------------------------------------------------------------------
(* Claims about the two implementations of the transient rule *)

\* the applied value of the last transient call is the threshold itself
AtThreshold ==
    /\ PyFloat(result.self.voltage_limit).ok
    /\ result.applied_voltage = PyFloat(result.self.voltage_limit).n

\* C27: for every threshold (numeric, numeric text, "no-limit", other
\* text), maxTimeFraction, duration and total time, and every applied value
\* other than the threshold, is_violation returns true exactly when
\* validate_transient returns a message.
C27_Agree ==
    (IsTransientCall /\ ~AtThreshold) =>
        /\ result.op = "is_violation" =>
            (result.ret = TRUE
                <=> validate_transient(result.self, result.applied_voltage,
                                       result.duration, result.total_time) # None)
        /\ result.op = "validate_transient" =>
            (result.ret # None
                <=> is_violation(result.self, result.applied_voltage,
                                 result.duration, result.total_time))

\* a threshold given as the text "1.71", 1.75 V applied for 1.1 us of 100 us
C27_Witness ==
    /\ result.op = "is_violation"
    /\ result.self = TransientLimit(Str(S_1_71), 10)
    /\ result.applied_voltage = 1750
    /\ result.duration = 11
    /\ result.total_time = 1000
    /\ result.ret = TRUE

--------------------------------------------------------------------------
(* Claims about the direction of the comparison *)

\* C28: a name with both an upper-bound marker ("high", "max") and a
\* lower-bound marker ("low", "min") is compared as an upper bound
\* (v <= L); a value is held to v >= L only under a name with "low" or
\* "min" and neither "high" nor "max"; the case of the name does not
\* matter.
C28_BothMarkers ==
    NumericThresholdCall =>
        /\ (HasUpperMarker(result.self.name) /\ HasLowerMarker(result.self.name))
              => (result.ret <=> result.test_value <= ResolvedThreshold)
        /\ (result.test_value # ResolvedThreshold
                /\ (result.ret <=> result.test_value >= ResolvedThreshold))
              => (HasLowerMarker(result.self.name)
                    /\ ~HasUpperMarker(result.self.name))
        /\ validate_value([result.self EXCEPT !.name = Lower(result.self.name)],
                          result.test_value, result.tmaxfrac) = result.ret

\* a value below the threshold passes under the name vhigh_low
C28_Witness ==
    /\ NumericThresholdCall
    /\ result.self.name = N_vhigh_low
    /\ result.test_value < ResolvedThreshold
    /\ result.ret = TRUE

\* the last parameter is compared as a lower bound
LowerBound ==
    HasLowerMarker(result.self.name) /\ ~HasUpperMarker(result.self.name)

\* C29: validate_value is monotone in the observed value: when it passes
\* for v, it passes for every v' <= v under an upper-bound comparison and
\* for every v' >= v under a lower-bound comparison, at every tmaxfrac and
\* for every table.
C29_Monotone ==
    (result.op = "validate_value" /\ result.ret = TRUE) =>
        \A w \in TestValues :
            (IF LowerBound THEN w >= result.test_value ELSE w <= result.test_value)
                => validate_value(result.self, w, result.tmaxfrac) = TRUE

\* 1.5 passes against the upper bound 5.0, and a smaller value is drawn
C29_Witness ==
    /\ NumericThresholdCall
    /\ ~LowerBound
    /\ result.test_value = 1500
    /\ ResolvedThreshold = 5000
    /\ result.ret = TRUE
    /\ \E w \in TestValues : w < result.test_value

--------------------------------------------------------------------------
(* Claims about the device keys of the registry *)

\* C30: no step of add_device, load_from_json (successful or failed) or the
\* export/load round trip removes a device key from the registry: a load
\* keeps every device whose key its document does not name.
C30_KeysOnlyGrow ==
    [][KeySet(devices) \subseteq KeySet(devices')]_vars

\* a document naming one device is loaded into a registry that has another
C30_Witness ==
    /\ result.op = "load_from_json"
    /\ result.raised = "None"
    /\ Cardinality(DocumentKeys) = 1
    /\ \E k \in KeySet(devices) : k \notin DocumentKeys

==========================================================================
